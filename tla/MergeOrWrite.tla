----------------------------- MODULE MergeOrWrite -----------------------------
(***************************************************************************)
(* CosmosContainerClient.mergeOrWriteDocument() and deleteDocument(), as   *)
(* called at the same time by the requests that the function app serves.   *)
(* A merge reads the document, computes the merged document in memory and  *)
(* writes it back. Each call to the data service is one step; other        *)
(* requests run in between. Calls may fail, with or without an effect, and *)
(* a request whose host stops after its read is one whose write failed     *)
(* without an effect.                                                      *)
(***************************************************************************)
EXTENDS CosmosContainer

CONSTANTS
    Requests,  \* requests of the callers, each is one call
    Ids,       \* ids of documents
    Payloads,  \* the payloads that callers send
    NoItem     \* an ErrorResponse: it has a status code and no item

ASSUME PayloadsAssumption == Payloads \subseteq Fields

ASSUME NoItemAssumption == NoItem \notin Documents \cup {Absent}

Ops == [kind : {"merge"}, id : Ids, payload : Payloads]
         \cup [kind : {"delete"}, id : Ids]

VARIABLES
    store,     \* store[i]: the document under id i, or Absent
    lastEtag,  \* the _etag given to the latest successful write
    op,        \* op[r]: what request r asks for
    pc,        \* pc[r]: the next call of r: "read", "write", or none ("done")
    seen,      \* seen[r]: what the read of r returned
    outcome,   \* outcome[r]: what the caller of r has been told
    merged,    \* merged[i]: history, requests the document under i took in
    effective  \* history, requests that changed the document they name

vars == <<store, lastEtag, op, pc, seen, outcome, merged, effective>>

history == <<merged, effective>>

StoredFor(r) == store[op[r].id]

\* The documents of websites have an array of known pages, which POST website
\* requires of its payload; those of pages and scans have none. An id is that
\* of one or the other.
SameKind ==
    \E websites \in SUBSET Ids :
        /\ \A i \in Ids : store[i] # Absent => (HasPages(store[i].body) <=> i \in websites)
        /\ \A r \in Requests : op[r].kind = "merge" =>
               (HasPages(op[r].payload) <=> op[r].id \in websites)

Init ==
    /\ store \in [Ids -> {Absent} \cup [etag : {1}, body : Fields]]
    /\ lastEtag = 1
    /\ op \in [Requests -> Ops]
    /\ SameKind
    /\ pc = [r \in Requests |-> IF op[r].kind = "merge" THEN "read" ELSE "write"]
    /\ seen = [r \in Requests |-> NoItem]
    /\ outcome = [r \in Requests |-> "pending"]
    /\ merged = [i \in Ids |-> {}]
    /\ effective = {}

At(kind, label, r) == op[r].kind = kind /\ pc[r] = label

\* The call of r returns or throws, its caller is told one of answers.
Answer(r, answers) ==
    /\ pc' = [pc EXCEPT ![r] = "done"]
    /\ \E a \in answers : outcome' = [outcome EXCEPT ![r] = a]
    /\ UNCHANGED <<op, seen>>

\* After an effect the answer may be lost: the caller is told of a failure.
Effective == {"updated", "failed"}

\* Mutant: the document is stored without an _etag.
WriteWithoutEtag(r, body) ==
    /\ lastEtag' = lastEtag + 1
    /\ store' = [store EXCEPT ![op[r].id] = [etag |-> NoEtag, body |-> body]]
    /\ effective' = effective \cup {r}

\* The document with these properties becomes the one r names.
Write(r, body) ==
    /\ lastEtag' = lastEtag + 1
    /\ store' = [store EXCEPT ![op[r].id] = [etag |-> lastEtag + 1, body |-> body]]
    /\ effective' = effective \cup {r}

-------------------------------------------------------------------------------
\* readItem(..., throwIfNotSuccess = false): the document, 404, or any other
\* error that has a code is a response; an error without a code is thrown.
ReadItem(r) ==
    /\ At("merge", "read", r)
    /\ \E response \in {StoredFor(r), NoItem} : seen' = [seen EXCEPT ![r] = response]
    /\ pc' = [pc EXCEPT ![r] = "write"]
    /\ UNCHANGED <<store, lastEtag, op, outcome, history>>

ReadThrows(r) ==
    /\ At("merge", "read", r)
    /\ Answer(r, {"failed"})
    /\ UNCHANGED <<store, lastEtag, history>>

\* The customizer of the merge finds two arrays, or is not called. There is no
\* item to merge into after a read that failed with any status but 404.
Mergeable(r) ==
    HasPages(op[r].payload) => seen[r] \in Documents /\ HasPages(seen[r].body)

\* It finds one, and throws before anything is written.
MergeThrows(r) ==
    /\ At("merge", "write", r)
    /\ seen[r] # Absent
    /\ ~Mergeable(r)
    /\ Answer(r, {"failed"})
    /\ UNCHANGED <<store, lastEtag, history>>

\* 404: the payload is written as it is, without an access condition.
WriteNew(r) ==
    /\ At("merge", "write", r)
    /\ seen[r] = Absent
    /\ Write(r, op[r].payload)
    /\ merged' = [merged EXCEPT ![op[r].id] = {r}]
    /\ Answer(r, Effective)

\* Mutant: the _etag of the payload wins over the stored one in the merge.
IfMatchPayload(r) == seen[r].etag + 1

\* The access condition of a merged document is the _etag that was read.
IfMatch(r) == seen[r].etag

WriteMerged(r) ==
    /\ At("merge", "write", r)
    /\ seen[r] \in Documents
    /\ Mergeable(r)
    /\ UpsertAccepted(StoredFor(r), IfMatch(r))
    /\ Write(r, MergeBodies(seen[r].body, op[r].payload))
    /\ merged' = [merged EXCEPT ![op[r].id] = @ \cup {r}]
    /\ Answer(r, Effective)

\* 412: upsertItem() throws, nobody tries again.
WriteRefused(r) ==
    /\ At("merge", "write", r)
    /\ seen[r] \in Documents
    /\ Mergeable(r)
    /\ UpsertRefused(StoredFor(r), IfMatch(r))
    /\ Answer(r, {"conflict"})
    /\ UNCHANGED <<store, lastEtag, history>>

\* Any other status of the read, and a payload whose merge does not throw, that
\* of a page or a scan: the document merged into nothing has no property but
\* its partition key, the client library gives it a new id, and the write of
\* that document is acknowledged.
WriteStray(r) ==
    /\ At("merge", "write", r)
    /\ seen[r] = NoItem
    /\ Mergeable(r)
    /\ lastEtag' = lastEtag + 1
    /\ Answer(r, Effective)
    /\ UNCHANGED <<store, history>>

\* deleteItem() has no access condition; 404 is an error, and throws.
DeleteItem(r) ==
    /\ At("delete", "write", r)
    /\ StoredFor(r) # Absent
    /\ store' = [store EXCEPT ![op[r].id] = Absent]
    /\ merged' = [merged EXCEPT ![op[r].id] = {}]
    /\ effective' = effective \cup {r}
    /\ Answer(r, Effective)
    /\ UNCHANGED lastEtag

\* The call fails before it has an effect, or the host of r stops.
WriteFails(r) ==
    /\ pc[r] = "write"
    /\ Answer(r, {"failed"})
    /\ UNCHANGED <<store, lastEtag, history>>

Step(r) ==
    \/ ReadItem(r)
    \/ ReadThrows(r)
    \/ MergeThrows(r)
    \/ WriteNew(r)
    \/ WriteMerged(r)
    \/ WriteRefused(r)
    \/ WriteStray(r)
    \/ DeleteItem(r)
    \/ WriteFails(r)

Next == \E r \in Requests : Step(r)

Spec == Init /\ [][Next]_vars

-------------------------------------------------------------------------------
(***************************************************************************)
(* Properties                                                              *)
(***************************************************************************)
TypeOK ==
    /\ store \in [Ids -> {Absent} \cup Documents]
    /\ lastEtag \in Nat \ {NoEtag}
    /\ op \in [Requests -> Ops]
    /\ pc \in [Requests -> {"read", "write", "done"}]
    /\ seen \in [Requests -> {Absent, NoItem} \cup Documents]
    /\ outcome \in [Requests -> {"pending", "updated", "conflict", "failed"}]
    /\ merged \in [Ids -> SUBSET Requests]
    /\ effective \subseteq Requests

\* No update is lost: however merges of the same document interleave, the
\* document holds the pages of every request merged into it since it was last
\* written anew or deleted.
NoPageLost ==
    \A i \in Ids : \A r \in merged[i] :
        /\ store[i] # Absent
        /\ Listed(op[r].payload) \subseteq Listed(store[i].body)

\* A 412 has a cause: some other request changed the document in the meantime.
\* Requests can not all refuse each other.
ConflictNeedsRival ==
    \A r \in Requests : outcome[r] = "conflict" =>
        \E s \in effective \ {r} : op[s].id = op[r].id

\* The comment of mergeOrWriteDocument(): a document that exists is merged with
\* the payload. Whatever changes a document, a merge leaves no part of it out.
MergesWithExisting ==
    [][\A r \in Requests :
         (/\ op[r].kind = "merge"
          /\ r \in effective' \ effective
          /\ StoredFor(r) # Absent)
         => store'[op[r].id].body = MergeBodies(StoredFor(r).body, op[r].payload)]_vars

\* The comment of mergeOrWriteDocument(): the payload of an acknowledged merge
\* is in the storage document, merged or written.
AcknowledgedIsStored ==
    \A r \in Requests :
        op[r].kind = "merge" /\ outcome[r] = "updated" => r \in effective

-------------------------------------------------------------------------------
\* What the callers see is what DocumentStore promises them.
Properties == [i \in Ids |-> IF store[i] = Absent THEN Absent ELSE store[i].body]

View(r) ==
    IF ~At("merge", "write", r) THEN "current"
    ELSE IF seen[r] = Absent THEN "absent"
    ELSE IF seen[r] = NoItem THEN "unknown"
    ELSE "current"

Promise == INSTANCE DocumentStore
               WITH docs <- Properties, view <- [r \in Requests |-> View(r)]

StorePromise == Promise!Spec
===============================================================================
