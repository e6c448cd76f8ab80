------------------------- MODULE MergeOrWrite_proofs -------------------------
(***************************************************************************)
(* Proofs about MergeOrWrite, for any number of requests, documents and    *)
(* payloads. The argument: an _etag names one content (EtagIdentifies), so *)
(* a write that passes its IfMatch condition writes the merge of the very  *)
(* document it replaces; whatever was merged before is therefore still in  *)
(* it (NoPageLost), and a refused write had a rival (ConflictNeedsRival).  *)
(***************************************************************************)
EXTENDS MergeOrWrite, TLAPS

\* No _etag is ahead of the latest one, so that the next one is new.
EtagsIssued ==
    /\ \A i \in Ids : store[i] # Absent => store[i].etag <= lastEtag
    /\ \A r \in Requests : seen[r] \in Documents => seen[r].etag <= lastEtag

\* A document that still carries the _etag that a request read is the document
\* that request read.
EtagIdentifies ==
    \A r \in Requests :
        /\ seen[r] \in Documents
        /\ StoredFor(r) # Absent
        /\ seen[r].etag = StoredFor(r).etag
        => seen[r] = StoredFor(r)

\* A request that is yet to write has no effect, and if the document is not
\* the one it read any more, another request has changed it.
RivalKnown ==
    \A r \in Requests : pc[r] # "done" =>
        /\ r \notin effective
        /\ outcome[r] = "pending"
        /\ At("merge", "write", r) /\ seen[r] \in Documents /\ StoredFor(r) # seen[r] =>
               \E s \in effective \ {r} : op[s].id = op[r].id

IInv ==
    /\ TypeOK
    /\ EtagsIssued
    /\ EtagIdentifies
    /\ NoPageLost
    /\ RivalKnown
    /\ ConflictNeedsRival

-------------------------------------------------------------------------------
\* The sum of two counts is positive if one of them is.
LEMMA SumPositive == \A m, n \in Nat : m + n \in Nat /\ (m + n > 0 <=> m > 0 \/ n > 0)
OBVIOUS

\* A merge that does not throw makes a document that lists the pages of both,
\* each of them once if the payload brings any.
LEMMA MergeBodiesType ==
    ASSUME NEW stored \in Fields, NEW payload \in Fields, CanMerge(stored, payload)
    PROVE  /\ MergeBodies(stored, payload) \in Fields
           /\ Listed(MergeBodies(stored, payload)) = Listed(stored) \cup Listed(payload)
           /\ HasPages(payload) => \A u \in Urls : MergeBodies(stored, payload).pages[u] <= 1
<1> DEFINE both == MergeBodies(stored, payload)
<1>1. /\ both.name = stored.name \/ both.name = payload.name
      /\ stored.name \in Names \cup {Undefined} /\ payload.name \in Names \cup {Undefined}
      /\ stored.pages \in Arrays \cup {Undefined} /\ payload.pages \in Arrays \cup {Undefined}
      /\ both = [name |-> both.name, pages |-> both.pages]
  BY DEF MergeBodies, Fields
<1>2. CASE ~HasPages(payload)
  <2>1. both.pages = stored.pages
    BY <1>2 DEF MergeBodies
  <2>2. Listed(payload) = {} /\ Listed(both) = Listed(stored)
    BY <1>2, <2>1 DEF Listed, HasPages
  <2> QED
    BY <1>1, <1>2, <2>1, <2>2 DEF Fields
<1>3. CASE HasPages(payload)
  <2>1. stored.pages \in Arrays /\ payload.pages \in Arrays /\ HasPages(stored)
    BY <1>1, <1>3 DEF CanMerge, HasPages
  <2>2. both.pages = ConcatUniq(stored.pages, payload.pages)
    BY <1>3 DEF MergeBodies
  <2>3. \A u \in Urls : /\ both.pages[u] \in {0, 1}
                        /\ both.pages[u] > 0 <=> stored.pages[u] > 0 \/ payload.pages[u] > 0
    <3> SUFFICES ASSUME NEW u \in Urls
                 PROVE  /\ both.pages[u] \in {0, 1}
                        /\ both.pages[u] > 0 <=> stored.pages[u] > 0 \/ payload.pages[u] > 0
      OBVIOUS
    <3>1. stored.pages[u] \in Nat /\ payload.pages[u] \in Nat
      BY <2>1, RepeatsAssumption DEF Arrays
    <3>2. both.pages[u] = IF stored.pages[u] + payload.pages[u] > 0 THEN 1 ELSE 0
      BY <2>2 DEF ConcatUniq
    <3> QED
      BY <3>1, <3>2, SumPositive
  <2>4. both.pages \in [Urls -> {0, 1}]
    BY <2>2, <2>3 DEF ConcatUniq
  <2>5. both.pages \in Arrays
    BY <2>4, RepeatsAssumption DEF Arrays
  <2>6. HasPages(both)
    BY <2>5, NamesAssumption DEF HasPages
  <2>7. Listed(both) = Listed(stored) \cup Listed(payload)
    BY <1>3, <2>1, <2>3, <2>6 DEF Listed
  <2>8. \A u \in Urls : both.pages[u] <= 1
    BY <2>3
  <2> QED
    BY <1>1, <2>5, <2>7, <2>8 DEF Fields
<1> QED
  BY <1>2, <1>3

\* What a request's operation and the three markers of "no document" are.
LEMMA OpType ==
    ASSUME TypeOK, NEW r \in Requests
    PROVE  /\ op[r] \in Ops
           /\ op[r].id \in Ids
           /\ op[r].kind \in {"merge", "delete"}
           /\ op[r].kind = "merge" => op[r].payload \in Fields
           /\ StoredFor(r) \in {Absent} \cup Documents
BY PayloadsAssumption DEF TypeOK, Ops, StoredFor

\* Absent, NoItem and the documents are told apart.
LEMMA Markers == Absent \notin Documents /\ NoItem \notin Documents /\ NoItem # Absent
BY AbsentAssumption, NoItemAssumption

\* A write puts a well-typed document with a new _etag under the id of r only.
LEMMA WriteType ==
    ASSUME TypeOK, NEW r \in Requests, NEW body \in Fields, Write(r, body)
    PROVE  /\ store' \in [Ids -> {Absent} \cup Documents]
           /\ lastEtag' = lastEtag + 1
           /\ lastEtag' \in Nat \ {NoEtag}
           /\ store'[op[r].id] = [etag |-> lastEtag + 1, body |-> body]
           /\ store'[op[r].id] \in Documents
           /\ \A i \in Ids \ {op[r].id} : store'[i] = store[i]
           /\ effective' = effective \cup {r}
<1>1. op[r].id \in Ids
  BY OpType
<1>2. lastEtag + 1 \in Nat \ {NoEtag}
  BY DEF TypeOK, NoEtag
<1>3. [etag |-> lastEtag + 1, body |-> body] \in Documents
  BY <1>2 DEF Documents
<1> QED
  BY <1>1, <1>2, <1>3 DEF Write, TypeOK

\* The body of a merged document.
LEMMA SeenBody ==
    ASSUME TypeOK, NEW r \in Requests, op[r].kind = "merge", seen[r] \in Documents,
           Mergeable(r)
    PROVE  /\ seen[r].body \in Fields /\ op[r].payload \in Fields
           /\ CanMerge(seen[r].body, op[r].payload)
           /\ MergeBodies(seen[r].body, op[r].payload) \in Fields
BY OpType, MergeBodiesType DEF Documents, Mergeable, CanMerge

LEMMA InitIInv == Init => IInv
<1> SUFFICES ASSUME Init PROVE IInv
  OBVIOUS
<1>1. TypeOK
  BY DEF Init, TypeOK, Documents, NoEtag
<1>2. \A i \in Ids : store[i] # Absent => store[i].etag = 1
  BY DEF Init
<1>3. \A r \in Requests : seen[r] = NoItem
  BY DEF Init
<1>4. EtagsIssued /\ EtagIdentifies
  BY <1>2, <1>3, Markers DEF Init, EtagsIssued, EtagIdentifies
<1>5. NoPageLost /\ RivalKnown /\ ConflictNeedsRival
  BY <1>3, Markers DEF Init, NoPageLost, RivalKnown, ConflictNeedsRival
<1> QED
  BY <1>1, <1>4, <1>5 DEF IInv

-------------------------------------------------------------------------------
\* Each step keeps the types.
LEMMA TypeStep == TypeOK /\ [Next]_vars => TypeOK'
<1> SUFFICES ASSUME TypeOK, [Next]_vars PROVE TypeOK'
  OBVIOUS
<1> USE DEF Answer, At, history, Effective
<1>1. ASSUME NEW r \in Requests, ReadItem(r) PROVE TypeOK'
  BY <1>1, OpType DEF ReadItem, TypeOK
<1>2. ASSUME NEW r \in Requests, ReadThrows(r) \/ MergeThrows(r) PROVE TypeOK'
  BY <1>2 DEF ReadThrows, MergeThrows, TypeOK
<1>3. ASSUME NEW r \in Requests, WriteNew(r) PROVE TypeOK'
  <2>1. op[r].payload \in Fields /\ Write(r, op[r].payload)
    BY <1>3, OpType DEF WriteNew
  <2>2. /\ store' \in [Ids -> {Absent} \cup Documents]
        /\ lastEtag' \in Nat \ {NoEtag}
        /\ effective' = effective \cup {r}
    BY <2>1, WriteType
  <2> QED
    BY <1>3, <2>2, OpType DEF WriteNew, TypeOK
<1>4. ASSUME NEW r \in Requests, WriteMerged(r) PROVE TypeOK'
  <2>1. /\ MergeBodies(seen[r].body, op[r].payload) \in Fields
        /\ Write(r, MergeBodies(seen[r].body, op[r].payload))
    BY <1>4, SeenBody DEF WriteMerged
  <2>2. /\ store' \in [Ids -> {Absent} \cup Documents]
        /\ lastEtag' \in Nat \ {NoEtag}
        /\ effective' = effective \cup {r}
    BY <2>1, WriteType
  <2> QED
    BY <1>4, <2>2, OpType DEF WriteMerged, TypeOK
<1>5. ASSUME NEW r \in Requests, WriteRefused(r) PROVE TypeOK'
  BY <1>5 DEF WriteRefused, TypeOK
<1>6. ASSUME NEW r \in Requests, WriteStray(r) PROVE TypeOK'
  BY <1>6 DEF WriteStray, NoEtag, TypeOK
<1>7. ASSUME NEW r \in Requests, DeleteItem(r) PROVE TypeOK'
  BY <1>7, OpType DEF DeleteItem, TypeOK
<1>8. ASSUME NEW r \in Requests, WriteFails(r) PROVE TypeOK'
  BY <1>8 DEF WriteFails, TypeOK
<1>9. CASE UNCHANGED vars
  BY <1>9 DEF vars, TypeOK
<1> QED
  BY <1>1, <1>2, <1>3, <1>4, <1>5, <1>6, <1>7, <1>8, <1>9 DEF Next, Step

\* Every state of MergeOrWrite is well typed.
THEOREM TypeCorrect == Spec => []TypeOK
<1>1. Init => TypeOK
  BY InitIInv DEF IInv
<1> QED
  BY <1>1, TypeStep, PTL DEF Spec

-------------------------------------------------------------------------------
\* No request but r sees or is told anything new.
LEMMA OthersKept ==
    ASSUME TypeOK, NEW r \in Requests, Step(r)
    PROVE  /\ op' = op
           /\ effective' \subseteq effective \cup {r}
           /\ effective \subseteq effective'
           /\ \A s \in Requests \ {r} :
                  pc'[s] = pc[s] /\ seen'[s] = seen[s] /\ outcome'[s] = outcome[s]
BY DEF TypeOK, Step, ReadItem, ReadThrows, MergeThrows, WriteNew, WriteMerged, WriteRefused, WriteStray,
       DeleteItem, WriteFails, Write, Answer, history

\* What a step does to the container: nothing, or a new _etag, or a deletion.
LEMMA StoreStep ==
    ASSUME TypeOK, NEW r \in Requests, Step(r)
    PROVE  /\ lastEtag' >= lastEtag
           /\ \A i \in Ids :
                \/ store'[i] = store[i]
                \/ /\ i = op[r].id
                   /\ r \in effective'
                   /\ pc[r] # "done" /\ pc'[r] = "done"
                   /\ \/ store'[i] = Absent
                      \/ store'[i] \in Documents /\ store'[i].etag = lastEtag + 1
                                                /\ lastEtag' = lastEtag + 1
<1> USE DEF Answer, At, history
<1>1. CASE WriteNew(r)
  <2>1. op[r].payload \in Fields /\ Write(r, op[r].payload)
    BY <1>1, OpType DEF WriteNew
  <2>2. /\ lastEtag' = lastEtag + 1
        /\ store'[op[r].id] = [etag |-> lastEtag + 1, body |-> op[r].payload]
        /\ store'[op[r].id] \in Documents
        /\ \A i \in Ids \ {op[r].id} : store'[i] = store[i]
        /\ r \in effective'
    BY <2>1, WriteType
  <2> QED
    BY <1>1, <2>2 DEF WriteNew, TypeOK
<1>2. CASE WriteMerged(r)
  <2>1. MergeBodies(seen[r].body, op[r].payload) \in Fields
    BY <1>2, SeenBody DEF WriteMerged
  <2>2. /\ lastEtag' = lastEtag + 1
        /\ store'[op[r].id] = [etag |-> lastEtag + 1,
                              body |-> MergeBodies(seen[r].body, op[r].payload)]
        /\ store'[op[r].id] \in Documents
        /\ \A i \in Ids \ {op[r].id} : store'[i] = store[i]
        /\ r \in effective'
    BY <1>2, <2>1, WriteType DEF WriteMerged
  <2> QED
    BY <1>2, <2>2 DEF WriteMerged, TypeOK
<1>3. CASE DeleteItem(r)
  BY <1>3, OpType DEF DeleteItem, TypeOK
<1>4. CASE WriteStray(r)
  BY <1>4 DEF WriteStray, TypeOK
<1>5. CASE ReadItem(r) \/ ReadThrows(r) \/ MergeThrows(r) \/ WriteRefused(r) \/ WriteFails(r)
  BY <1>5 DEF ReadItem, ReadThrows, MergeThrows, WriteRefused, WriteFails, TypeOK
<1> QED
  BY <1>1, <1>2, <1>3, <1>4, <1>5 DEF Step

\* A request sees a new item only when it reads, and then it sees its document.
LEMMA SeenStep ==
    ASSUME TypeOK, NEW r \in Requests, Step(r), NEW s \in Requests, seen'[s] \in Documents
    PROVE  \/ seen'[s] = seen[s]
           \/ s = r /\ seen'[r] = StoredFor(r) /\ store' = store /\ lastEtag' = lastEtag
BY Markers DEF TypeOK, Step, ReadItem, ReadThrows, MergeThrows, WriteNew, WriteMerged, WriteRefused,
       WriteStray, DeleteItem, WriteFails, Write, Answer, history

LEMMA EtagStep == IInv /\ Next => EtagsIssued' /\ EtagIdentifies'
<1> SUFFICES ASSUME IInv, NEW r \in Requests, Step(r) PROVE EtagsIssued' /\ EtagIdentifies'
  BY DEF Next
<1>1. TypeOK /\ EtagsIssued /\ EtagIdentifies
  BY DEF IInv
<1>2. TypeOK'
  BY <1>1, TypeStep DEF Next
<1>3. lastEtag \in Nat /\ lastEtag' \in Nat
  BY <1>1, <1>2 DEF TypeOK
<1>4. ASSUME NEW i \in Ids, store'[i] # Absent PROVE store'[i].etag <= lastEtag'
  <2>1. CASE store'[i] = store[i]
    <3>1. store[i] \in Documents /\ store[i].etag <= lastEtag
      BY <1>1, <1>4, <2>1 DEF TypeOK, EtagsIssued
    <3> QED
      BY <1>1, <1>3, <2>1, <3>1, StoreStep DEF Documents
  <2>2. CASE store'[i] # store[i]
    BY <1>1, <1>3, <1>4, <2>2, StoreStep
  <2> QED
    BY <2>1, <2>2
<1>5. ASSUME NEW s \in Requests, seen'[s] \in Documents PROVE seen'[s].etag <= lastEtag'
  <2>1. seen'[s].etag \in Nat
    BY <1>5 DEF Documents
  <2>2. seen'[s].etag <= lastEtag
    <3>1. CASE seen'[s] = seen[s]
      BY <1>1, <1>5, <3>1 DEF EtagsIssued
    <3>2. CASE s = r /\ seen'[r] = StoredFor(r)
      BY <1>1, <1>5, <3>2, OpType, Markers DEF EtagsIssued, StoredFor
    <3> QED
      BY <1>1, <1>5, <3>1, <3>2, SeenStep
  <2> QED
    BY <1>1, <1>3, <2>1, <2>2, StoreStep
<1>6. ASSUME NEW s \in Requests, seen'[s] \in Documents, store'[op'[s].id] # Absent,
             seen'[s].etag = store'[op'[s].id].etag
      PROVE  seen'[s] = store'[op'[s].id]
  <2>1. op' = op /\ op[s].id \in Ids
    BY <1>1, OpType, OthersKept
  <2>2. CASE store'[op[s].id] = store[op[s].id]
    <3>1. CASE seen'[s] = seen[s]
      BY <1>1, <1>6, <2>1, <2>2, <3>1 DEF EtagIdentifies, StoredFor
    <3>2. CASE s = r /\ seen'[r] = StoredFor(r)
      BY <2>1, <2>2, <3>2 DEF StoredFor
    <3> QED
      BY <1>1, <1>6, <3>1, <3>2, SeenStep
  <2>3. CASE store'[op[s].id] # store[op[s].id]
    <3>1. store'[op[s].id].etag = lastEtag + 1
      BY <1>1, <1>6, <2>1, <2>3, StoreStep
    <3>2. seen'[s] = seen[s]
      BY <1>1, <1>6, <2>3, SeenStep
    <3>3. seen[s].etag <= lastEtag /\ seen[s].etag \in Nat
      BY <1>1, <1>6, <3>2 DEF EtagsIssued, Documents
    <3> QED
      BY <1>3, <1>6, <2>1, <3>1, <3>2, <3>3
  <2> QED
    BY <2>2, <2>3
<1>7. EtagsIssued'
  BY <1>4, <1>5 DEF EtagsIssued
<1>8. EtagIdentifies'
  BY <1>6 DEF EtagIdentifies, StoredFor
<1> QED
  BY <1>7, <1>8

\* A write that passes its condition merges with the document it replaces.
LEMMA MergesWhatItReplaces ==
    ASSUME IInv, NEW r \in Requests, WriteMerged(r)
    PROVE  /\ store'[op[r].id] = [etag |-> lastEtag + 1,
                                 body |-> MergeBodies(seen[r].body, op[r].payload)]
           /\ StoredFor(r) # Absent => StoredFor(r) = seen[r]
           /\ seen[r].body \in Fields /\ op[r].payload \in Fields
           /\ CanMerge(seen[r].body, op[r].payload)
<1>1. TypeOK /\ EtagIdentifies
  BY DEF IInv
<1>2. op[r].kind = "merge" /\ seen[r] \in Documents /\ Mergeable(r)
  BY DEF WriteMerged, At
<1>3. seen[r].etag # NoEtag
  BY <1>2 DEF Documents
<1>4. /\ seen[r].body \in Fields /\ op[r].payload \in Fields
      /\ CanMerge(seen[r].body, op[r].payload)
      /\ MergeBodies(seen[r].body, op[r].payload) \in Fields
  BY <1>1, <1>2, SeenBody
<1>6. store'[op[r].id] = [etag |-> lastEtag + 1,
                          body |-> MergeBodies(seen[r].body, op[r].payload)]
  BY <1>1, <1>4, WriteType DEF WriteMerged
<1>7. StoredFor(r) # Absent => StoredFor(r).etag = seen[r].etag
  BY <1>3 DEF WriteMerged, UpsertAccepted, IfMatch
<1> QED
  BY <1>1, <1>2, <1>4, <1>6, <1>7 DEF EtagIdentifies

LEMMA NoPageLostStep == IInv /\ Next => NoPageLost'
<1> SUFFICES ASSUME IInv, NEW r \in Requests, Step(r), NEW i \in Ids, NEW q \in merged'[i]
             PROVE  store'[i] # Absent /\ Listed(op[q].payload) \subseteq Listed(store'[i].body)
  <2>1. IInv => \A r \in Requests : Step(r) => op' = op
    BY OthersKept DEF IInv
  <2> QED
    BY <2>1 DEF Next, NoPageLost
<1>1. TypeOK /\ NoPageLost
  BY DEF IInv
<1>2. CASE store'[i] = store[i] /\ merged'[i] = merged[i]
  BY <1>1, <1>2 DEF NoPageLost
<1>3. CASE WriteNew(r)
  <2>1. op[r].id \in Ids /\ op[r].payload \in Fields /\ Write(r, op[r].payload)
    BY <1>1, <1>3, OpType DEF WriteNew, At
  <2>2. /\ store'[op[r].id] = [etag |-> lastEtag + 1, body |-> op[r].payload]
        /\ store'[op[r].id] \in Documents
        /\ \A j \in Ids \ {op[r].id} : store'[j] = store[j]
    BY <1>1, <2>1, WriteType
  <2>3. /\ merged'[op[r].id] = {r}
        /\ \A j \in Ids \ {op[r].id} : merged'[j] = merged[j]
    BY <1>1, <1>3, <2>1 DEF WriteNew, TypeOK
  <2> QED
    BY <1>2, <2>2, <2>3, Markers
<1>4. CASE WriteMerged(r)
  <2> DEFINE body == MergeBodies(seen[r].body, op[r].payload)
  <2>1. op[r].id \in Ids
    BY <1>1, OpType
  <2>2. /\ store'[op[r].id] = [etag |-> lastEtag + 1, body |-> body]
        /\ StoredFor(r) # Absent => StoredFor(r) = seen[r]
        /\ body \in Fields
        /\ Listed(seen[r].body) \subseteq Listed(body)
        /\ Listed(op[r].payload) \subseteq Listed(body)
    BY <1>4, MergesWhatItReplaces, MergeBodiesType
  <2>3. store'[op[r].id] # Absent
    <3>1. lastEtag + 1 \in Nat \ {NoEtag}
      BY <1>1 DEF TypeOK, NoEtag
    <3>2. [etag |-> lastEtag + 1, body |-> body] \in Documents
      BY <2>2, <3>1 DEF Documents
    <3> QED
      BY <2>2, <3>2, Markers
  <2>4. \A j \in Ids \ {op[r].id} : store'[j] = store[j] /\ merged'[j] = merged[j]
    BY <1>1, <1>4, <2>1 DEF WriteMerged, Write, TypeOK
  <2>5. merged'[op[r].id] = merged[op[r].id] \cup {r}
    BY <1>1, <1>4, <2>1 DEF WriteMerged, TypeOK
  <2>6. ASSUME i = op[r].id, q \in merged[i] PROVE Listed(op[q].payload) \subseteq Listed(body)
    <3>1. StoredFor(r) # Absent /\ Listed(op[q].payload) \subseteq Listed(StoredFor(r).body)
      BY <1>1, <2>1, <2>6 DEF NoPageLost, StoredFor
    <3> QED
      BY <2>2, <3>1
  <2>7. CASE i = op[r].id
    BY <2>2, <2>3, <2>5, <2>6, <2>7
  <2> QED
    BY <1>2, <2>4, <2>7
<1>5. CASE DeleteItem(r)
  BY <1>1, <1>2, <1>5, OpType DEF DeleteItem, TypeOK
<1>6. CASE \/ ReadItem(r) \/ ReadThrows(r) \/ MergeThrows(r)
            \/ WriteRefused(r) \/ WriteStray(r) \/ WriteFails(r)
  BY <1>2, <1>6 DEF ReadItem, ReadThrows, MergeThrows, WriteRefused, WriteStray, WriteFails, history
<1> QED
  BY <1>3, <1>4, <1>5, <1>6 DEF Step

LEMMA RivalStep == IInv /\ Next => RivalKnown' /\ ConflictNeedsRival'
<1> SUFFICES ASSUME IInv, NEW r \in Requests, Step(r) PROVE RivalKnown' /\ ConflictNeedsRival'
  BY DEF Next
<1>1. TypeOK /\ RivalKnown /\ ConflictNeedsRival
  BY DEF IInv
<1>2. /\ op' = op
      /\ effective \subseteq effective'
      /\ effective' \subseteq effective \cup {r}
  BY <1>1, OthersKept
<1>3. pc[r] # "done" /\ r \notin effective
  BY <1>1 DEF RivalKnown, Step, ReadItem, ReadThrows, MergeThrows, WriteNew, WriteMerged, WriteRefused,
              WriteStray, DeleteItem, WriteFails, At
<1>4. ASSUME NEW s \in Requests \ {r}, pc'[s] # "done"
      PROVE  /\ s \notin effective'
             /\ outcome'[s] = "pending"
             /\ At("merge", "write", s)' /\ seen'[s] \in Documents /\ StoredFor(s)' # seen'[s] =>
                    \E q \in effective' \ {s} : op'[q].id = op'[s].id
  <2>1. pc'[s] = pc[s] /\ seen'[s] = seen[s] /\ outcome'[s] = outcome[s]
    BY <1>1, OthersKept
  <2>2. s \notin effective /\ outcome[s] = "pending"
    BY <1>1, <1>4, <2>1 DEF RivalKnown
  <2>3. ASSUME At("merge", "write", s)', seen'[s] \in Documents, StoredFor(s)' # seen'[s]
        PROVE  \E q \in effective' \ {s} : op'[q].id = op'[s].id
    <3>1. CASE store'[op[s].id] = store[op[s].id]
      <4>1. At("merge", "write", s) /\ seen[s] \in Documents /\ StoredFor(s) # seen[s]
        BY <1>2, <2>1, <2>3, <3>1 DEF At, StoredFor
      <4> QED
        BY <1>1, <1>2, <1>4, <2>1, <4>1 DEF RivalKnown
    <3>2. CASE store'[op[s].id] # store[op[s].id]
      <4>1. op[s].id = op[r].id /\ r \in effective'
        BY <1>1, <3>2, StoreStep, OpType
      <4> QED
        BY <1>2, <4>1
    <3> QED
      BY <3>1, <3>2
  <2> QED
    BY <1>2, <2>1, <2>2, <2>3
<1>5. ASSUME pc'[r] # "done"
      PROVE  /\ r \notin effective'
             /\ outcome'[r] = "pending"
             /\ At("merge", "write", r)' /\ seen'[r] \in Documents => StoredFor(r)' = seen'[r]
  <2>1. ReadItem(r)
    BY <1>1, <1>5 DEF TypeOK, Step, ReadThrows, MergeThrows, WriteNew, WriteMerged, WriteRefused,
                      WriteStray, DeleteItem, WriteFails, Answer
  <2> QED
    BY <1>1, <1>3, <2>1, Markers DEF ReadItem, RivalKnown, TypeOK, StoredFor, history
<1>6. RivalKnown'
  BY <1>4, <1>5 DEF RivalKnown
<1>7. ASSUME NEW s \in Requests, outcome'[s] = "conflict"
      PROVE  \E q \in effective' \ {s} : op'[q].id = op'[s].id
  <2>1. CASE outcome[s] = "conflict"
    BY <1>1, <1>2, <2>1 DEF ConflictNeedsRival
  <2>2. CASE outcome[s] # "conflict"
    <3>1. s = r
      BY <1>1, <1>7, <2>2, OthersKept
    <3>2. WriteRefused(r)
      BY <1>1, <1>7, <2>2, <3>1 DEF TypeOK, Step, ReadItem, ReadThrows, MergeThrows, WriteNew, WriteMerged,
                        WriteStray, DeleteItem, WriteFails, Answer, Effective
    <3>3. At("merge", "write", r) /\ seen[r] \in Documents /\ StoredFor(r) # seen[r]
      BY <3>2, Markers DEF WriteRefused, UpsertRefused, IfMatch
    <3> QED
      BY <1>1, <1>2, <1>3, <3>1, <3>3 DEF RivalKnown
  <2> QED
    BY <2>1, <2>2
<1>8. ConflictNeedsRival'
  BY <1>7 DEF ConflictNeedsRival
<1> QED
  BY <1>6, <1>8

LEMMA StutterIInv == IInv /\ UNCHANGED vars => IInv'
<1> SUFFICES ASSUME IInv, UNCHANGED vars PROVE IInv'
  OBVIOUS
<1>1. TypeOK'
  BY TypeStep DEF IInv
<1>2. EtagsIssued' /\ EtagIdentifies'
  BY DEF IInv, vars, EtagsIssued, EtagIdentifies, StoredFor
<1>3. NoPageLost'
  BY DEF IInv, vars, NoPageLost
<1>4. RivalKnown' /\ ConflictNeedsRival'
  BY DEF IInv, vars, RivalKnown, ConflictNeedsRival, StoredFor, At
<1> QED
  BY <1>1, <1>2, <1>3, <1>4 DEF IInv

LEMMA IInvStep == IInv /\ [Next]_vars => IInv'
<1>1. IInv /\ Next => IInv'
  BY TypeStep, EtagStep, NoPageLostStep, RivalStep DEF IInv
<1> QED
  BY <1>1, StutterIInv

THEOREM Invariance == Spec => []IInv
BY InitIInv, IInvStep, PTL DEF Spec

\* No merged page is ever lost, and every conflict has a rival.
THEOREM NoUpdateLost == Spec => []NoPageLost
<1>1. IInv => NoPageLost
  BY DEF IInv
<1> QED
  BY <1>1, Invariance, PTL

THEOREM ConflictsHaveRivals == Spec => []ConflictNeedsRival
<1>1. IInv => ConflictNeedsRival
  BY DEF IInv
<1> QED
  BY <1>1, Invariance, PTL

-------------------------------------------------------------------------------
\* A merge that is sent again, as RetryHelper does with a POST whose answer is
\* lost, neither adds nor drops a page, whatever other requests did to the
\* document in between, and leaves no page in its array twice.
RepeatAddsNothing ==
    [][\A r \in Requests :
         (WriteMerged(r) /\ \E q \in merged[op[r].id] : op[q] = op[r])
         => /\ Listed(store'[op[r].id].body) = Listed(StoredFor(r).body)
            /\ HasPages(op[r].payload) =>
                   \A u \in Urls : store'[op[r].id].body.pages[u] <= 1]_vars

\* Unless the document was written anew or deleted in between: by NoPageLost it
\* still has the pages of the first, and it is the document that was read.
THEOREM RepeatedMergeAddsNothing == Spec => RepeatAddsNothing
<1>1. ASSUME IInv, NEW r \in Requests, WriteMerged(r), NEW q \in merged[op[r].id], op[q] = op[r]
      PROVE  /\ Listed(store'[op[r].id].body) = Listed(StoredFor(r).body)
             /\ HasPages(op[r].payload) =>
                    \A u \in Urls : store'[op[r].id].body.pages[u] <= 1
  <2> DEFINE body == MergeBodies(seen[r].body, op[r].payload)
  <2>1. op[r].id \in Ids
    BY <1>1, OpType DEF IInv
  <2>2. StoredFor(r) # Absent /\ Listed(op[r].payload) \subseteq Listed(StoredFor(r).body)
    BY <1>1, <2>1 DEF IInv, NoPageLost, StoredFor
  <2>3. /\ store'[op[r].id].body = body
        /\ StoredFor(r) = seen[r]
        /\ seen[r].body \in Fields /\ op[r].payload \in Fields
        /\ CanMerge(seen[r].body, op[r].payload)
    <3>1. store'[op[r].id] = [etag |-> lastEtag + 1, body |-> body]
      BY <1>1, MergesWhatItReplaces
    <3>2. store'[op[r].id].body = body
      BY <3>1
    <3> QED
      BY <1>1, <2>2, <3>2, MergesWhatItReplaces
  <2>4. /\ Listed(body) = Listed(seen[r].body) \cup Listed(op[r].payload)
        /\ HasPages(op[r].payload) => \A u \in Urls : body.pages[u] <= 1
    BY <2>3, MergeBodiesType
  <2> QED
    BY <2>2, <2>3, <2>4
<1> DEFINE Repeat ==
        \A r \in Requests :
            (WriteMerged(r) /\ \E q \in merged[op[r].id] : op[q] = op[r])
            => /\ Listed(store'[op[r].id].body) = Listed(StoredFor(r).body)
               /\ HasPages(op[r].payload) =>
                      \A u \in Urls : store'[op[r].id].body.pages[u] <= 1
<1>2. IInv /\ [Next]_vars => [Repeat]_vars
  BY <1>1
<1> QED
  BY <1>2, Invariance, PTL DEF Spec, RepeatAddsNothing

-------------------------------------------------------------------------------
\* MergeOrWrite implements DocumentStore: at its write, a request acts on the
\* document in one step.
LEMMA PromiseOperators ==
    /\ Fields = Promise!Fields
    /\ \A stored, payload : /\ CanMerge(stored, payload) <=> Promise!CanMerge(stored, payload)
                            /\ MergeBodies(stored, payload) = Promise!MergeBodies(stored, payload)
BY DEF Fields, Promise!Fields, Arrays, Promise!Arrays, CanMerge, Promise!CanMerge, HasPages,
       Promise!HasPages, MergeBodies, Promise!MergeBodies, ConcatUniq, Promise!ConcatUniq

LEMMA PromiseInit == Init => Promise!Init
<1> SUFFICES ASSUME Init PROVE Promise!Init
  OBVIOUS
<1>1. Properties \in [Ids -> {Absent} \cup Fields]
  BY DEF Init, Properties
<1>2. \A r \in Requests : View(r) = "current"
  <2>1. \A r \in Requests : ~At("merge", "write", r)
    BY DEF Init, At
  <2> QED
    BY <2>1 DEF View
<1>3. Ops = Promise!Ops /\ Fields = Promise!Fields
  BY PromiseOperators DEF Ops, Promise!Ops
<1> QED
  BY <1>1, <1>2, <1>3 DEF Init, Promise!Init

\* What a change of one document is in DocumentStore.
LEMMA PropertiesWritten ==
    ASSUME TypeOK, NEW r \in Requests, NEW body \in Fields, Write(r, body)
    PROVE  Properties' = [Properties EXCEPT ![op[r].id] = body]
<1>1. op[r].id \in Ids
  BY OpType
<1>2. /\ store'[op[r].id] = [etag |-> lastEtag + 1, body |-> body]
      /\ store'[op[r].id] \in Documents
      /\ \A i \in Ids \ {op[r].id} : store'[i] = store[i]
  BY WriteType
<1>3. store'[op[r].id] # Absent /\ store'[op[r].id].body = body
  BY <1>2, Markers
<1> QED
  BY <1>1, <1>2, <1>3 DEF Properties

\* The answer of r leaves the view of every other request alone.
LEMMA AnswerRefined ==
    ASSUME TypeOK, NEW r \in Requests, NEW answers, Answer(r, answers)
    PROVE  Promise!Answer(r, answers)
<1>1. /\ op' = op /\ seen' = seen /\ pc'[r] = "done"
      /\ \A s \in Requests \ {r} : pc'[s] = pc[s]
      /\ \E a \in answers : outcome' = [outcome EXCEPT ![r] = a]
  BY DEF Answer, TypeOK
<1>2. \A s \in Requests \ {r} : View(s)' = View(s)
  BY <1>1 DEF View, At
<1>3. View(r)' = "current"
  <2>1. ~At("merge", "write", r)'
    BY <1>1 DEF At
  <2> QED
    BY <2>1 DEF View
<1> QED
  BY <1>1, <1>2, <1>3 DEF Promise!Answer

\* A request that is at its write is pending in DocumentStore.
LEMMA PendingRefined ==
    ASSUME IInv, NEW r \in Requests, pc[r] # "done"
    PROVE  /\ outcome[r] = "pending"
           /\ op[r].kind = "merge" => Promise!Pending("merge", r)
           /\ op[r].kind = "delete" => Promise!Pending("delete", r)
BY DEF IInv, RivalKnown, Promise!Pending

LEMMA PromiseStep == IInv /\ [Next]_vars => [Promise!Next]_(Promise!vars)
<1> SUFFICES ASSUME IInv, [Next]_vars PROVE [Promise!Next]_(Promise!vars)
  OBVIOUS
<1>0. TypeOK /\ RivalKnown
  BY DEF IInv
<1>1. ASSUME NEW r \in Requests, ReadItem(r)
      PROVE  Promise!SeeAbsent(r) \/ Promise!SeeNothing(r) \/ UNCHANGED Promise!vars
  <2>1. /\ store' = store /\ op' = op /\ outcome' = outcome
        /\ At("merge", "read", r)
        /\ pc' = [pc EXCEPT ![r] = "write"]
        /\ seen'[r] = StoredFor(r) \/ seen'[r] = NoItem
        /\ \A s \in Requests \ {r} : seen'[s] = seen[s]
    BY <1>0, <1>1 DEF ReadItem, history, TypeOK
  <2>2. Promise!Pending("merge", r) /\ View(r) = "current"
    BY <1>0, <2>1, PendingRefined DEF At, View
  <2>3. \A s \in Requests \ {r} : View(s)' = View(s)
    BY <1>0, <2>1 DEF View, At, TypeOK
  <2>4. Properties' = Properties
    BY <2>1 DEF Properties
  <2>5. At("merge", "write", r)'
    BY <1>0, <2>1 DEF At, TypeOK
  <2>6. CASE seen'[r] = NoItem
    <3>1. View(r)' = "unknown"
      BY <2>5, <2>6, Markers DEF View
    <3> QED
      BY <2>1, <2>2, <2>3, <2>4, <3>1 DEF Promise!SeeNothing
  <2>7. CASE seen'[r] = StoredFor(r) /\ StoredFor(r) = Absent
    <3>1. View(r)' = "absent"
      BY <2>5, <2>7 DEF View
    <3>2. Properties[op[r].id] = Absent
      BY <1>0, <2>7, OpType DEF Properties, StoredFor
    <3> QED
      BY <2>1, <2>2, <2>3, <2>4, <3>1, <3>2 DEF Promise!SeeAbsent
  <2>8. CASE seen'[r] = StoredFor(r) /\ StoredFor(r) # Absent
    <3>1. seen'[r] # NoItem /\ seen'[r] # Absent
      BY <1>0, <2>8, OpType, Markers
    <3>2. View(r)' = "current"
      BY <3>1 DEF View
    <3> QED
      BY <2>1, <2>2, <2>3, <2>4, <3>2 DEF Promise!vars
  <2> QED
    BY <2>1, <2>6, <2>7, <2>8
<1>2. ASSUME NEW r \in Requests, ReadThrows(r) \/ MergeThrows(r) PROVE Promise!Refuse(r)
  <2>1. Properties' = Properties /\ Answer(r, {"failed"}) /\ outcome[r] = "pending"
    BY <1>2, PendingRefined DEF ReadThrows, MergeThrows, Properties, At
  <2>2. Promise!Answer(r, {"failed"})
    BY <1>0, <2>1, AnswerRefined
  <2> QED
    BY <2>1, <2>2 DEF Promise!Refuse, Promise!Answer
<1>3. ASSUME NEW r \in Requests, WriteNew(r) PROVE Promise!WriteOver(r)
  <2>1. At("merge", "write", r) /\ seen[r] = Absent
        /\ Write(r, op[r].payload) /\ Answer(r, Effective) /\ op[r].payload \in Fields
    BY <1>0, <1>3, OpType DEF WriteNew, At
  <2>2. Promise!Pending("merge", r) /\ View(r) = "absent"
    BY <2>1, PendingRefined DEF At, View
  <2>3. Properties' = [Properties EXCEPT ![op[r].id] = op[r].payload]
    BY <1>0, <2>1, PropertiesWritten
  <2>4. Promise!Answer(r, Effective)
    BY <1>0, <2>1, AnswerRefined
  <2> QED
    BY <2>2, <2>3, <2>4 DEF Promise!WriteOver, Promise!Effective, Effective
<1>4. ASSUME NEW r \in Requests, WriteMerged(r) PROVE Promise!MergeNow(r) \/ Promise!Revive(r)
  <2> DEFINE body == MergeBodies(seen[r].body, op[r].payload)
  <2>1. /\ At("merge", "write", r) /\ seen[r] \in Documents
        /\ Write(r, body) /\ Answer(r, Effective)
    BY <1>4 DEF WriteMerged
  <2>2. Promise!Pending("merge", r) /\ View(r) = "current"
    <3>1. seen[r] # Absent /\ seen[r] # NoItem
      BY <2>1, Markers
    <3>2. View(r) = "current"
      BY <2>1, <3>1 DEF View
    <3> QED
      BY <2>1, <3>2, PendingRefined DEF At
  <2>3. /\ StoredFor(r) # Absent => StoredFor(r) = seen[r]
        /\ seen[r].body \in Fields
        /\ body \in Fields
        /\ CanMerge(seen[r].body, op[r].payload)
    BY <1>4, MergesWhatItReplaces, MergeBodiesType
  <2>4. Properties' = [Properties EXCEPT ![op[r].id] = body]
    BY <1>0, <2>1, <2>3, PropertiesWritten
  <2>5. Promise!Answer(r, Promise!Effective)
    BY <1>0, <2>1, AnswerRefined DEF Promise!Effective, Effective
  <2>6. /\ body = Promise!MergeBodies(seen[r].body, op[r].payload)
        /\ Promise!CanMerge(seen[r].body, op[r].payload)
        /\ Fields = Promise!Fields
    BY <2>3, PromiseOperators
  <2>7. op[r].id \in Ids
    BY <1>0, OpType
  <2>8. CASE StoredFor(r) # Absent
    <3>1. Properties[op[r].id] = seen[r].body /\ Properties[op[r].id] # Absent
      <4>1. seen[r].body # Absent
        BY <2>3, AbsentAssumption
      <4> QED
        BY <2>3, <2>7, <2>8, <4>1 DEF Properties, StoredFor
    <3> QED
      BY <2>2, <2>4, <2>5, <2>6, <2>7, <3>1 DEF Promise!MergeNow, Properties
  <2>9. CASE StoredFor(r) = Absent
    <3>1. Properties[op[r].id] = Absent
      BY <2>7, <2>9 DEF Properties, StoredFor
    <3> QED
      BY <2>2, <2>3, <2>4, <2>5, <2>6, <3>1 DEF Promise!Revive
  <2> QED
    BY <2>8, <2>9
<1>5. ASSUME NEW r \in Requests, WriteRefused(r) PROVE Promise!Refuse(r)
  <2>1. Properties' = Properties /\ Answer(r, {"conflict"}) /\ outcome[r] = "pending"
    BY <1>5, PendingRefined DEF WriteRefused, Properties, At
  <2>2. Promise!Answer(r, {"conflict"})
    BY <1>0, <2>1, AnswerRefined
  <2> QED
    BY <2>1, <2>2 DEF Promise!Refuse, Promise!Answer
<1>6. ASSUME NEW r \in Requests, WriteStray(r) PROVE Promise!AcknowledgeOnly(r)
  <2>1. /\ At("merge", "write", r) /\ seen[r] = NoItem
        /\ Answer(r, Effective) /\ Properties' = Properties
        /\ ~Promise!HasPages(op[r].payload)
    BY <1>6, Markers DEF WriteStray, Mergeable, Properties, history, HasPages, Promise!HasPages
  <2>2. Promise!Pending("merge", r) /\ View(r) = "unknown"
    BY <2>1, PendingRefined, Markers DEF At, View
  <2>3. Promise!Answer(r, Effective)
    BY <1>0, <2>1, AnswerRefined
  <2> QED
    BY <2>1, <2>2, <2>3 DEF Promise!AcknowledgeOnly, Promise!Effective, Effective
<1>7. ASSUME NEW r \in Requests, DeleteItem(r) PROVE Promise!Remove(r)
  <2>1. /\ At("delete", "write", r) /\ StoredFor(r) # Absent
        /\ store' = [store EXCEPT ![op[r].id] = Absent] /\ Answer(r, Effective)
    BY <1>7 DEF DeleteItem
  <2>2. Promise!Pending("delete", r)
    BY <2>1, PendingRefined DEF At
  <2>3. op[r].id \in Ids /\ StoredFor(r) \in Documents
    BY <1>0, <2>1, OpType
  <2>4. Properties[op[r].id] # Absent
    <3>1. StoredFor(r).body \in Fields
      BY <2>3 DEF Documents
    <3> QED
      BY <2>1, <2>3, <3>1, AbsentAssumption DEF Properties, StoredFor
  <2>5. Properties' = [Properties EXCEPT ![op[r].id] = Absent]
    BY <1>0, <2>1, <2>3 DEF Properties, TypeOK
  <2>6. Promise!Answer(r, Effective)
    BY <1>0, <2>1, AnswerRefined
  <2> QED
    BY <2>2, <2>4, <2>5, <2>6 DEF Promise!Remove, Promise!Effective, Effective
<1>8. ASSUME NEW r \in Requests, WriteFails(r) PROVE Promise!Refuse(r)
  <2>1. Properties' = Properties /\ Answer(r, {"failed"}) /\ outcome[r] = "pending"
    BY <1>8, PendingRefined DEF WriteFails, Properties
  <2>2. Promise!Answer(r, {"failed"})
    BY <1>0, <2>1, AnswerRefined
  <2> QED
    BY <2>1, <2>2 DEF Promise!Refuse, Promise!Answer
<1>9. CASE UNCHANGED vars
  BY <1>9 DEF vars, Promise!vars, Properties, View, At
<1> QED
  BY <1>1, <1>2, <1>3, <1>4, <1>5, <1>6, <1>7, <1>8, <1>9 DEF Next, Step, Promise!Next

\* Whatever requests run at the same time, the container and the answers are
\* those of a DocumentStore.
THEOREM ImplementsDocumentStore == Spec => StorePromise
BY PromiseInit, PromiseStep, Invariance, PTL DEF Spec, StorePromise, Promise!Spec
==============================================================================
