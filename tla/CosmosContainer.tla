--------------------------- MODULE CosmosContainer ---------------------------
(***************************************************************************)
(* What the code sees of one document of an Azure Cosmos DB container      *)
(* through azure-services/src/azure-cosmos/cosmos-client-wrapper.ts: its   *)
(* _etag, the conditional upsert, and the merge that                       *)
(* CosmosContainerClient.mergeOrWriteDocument() makes of two documents.    *)
(*                                                                         *)
(* A document is abstracted to the two ways in which fields are merged:    *)
(*   name   a field that the last writer overrides (a value, or an array   *)
(*          without a custom merge); Undefined when it is not there        *)
(*   pages  a field with a custom merge, Website.knownPages: an array, of  *)
(*          which the model keeps how often each url is in it, or          *)
(*          Undefined in the documents of pages and scans, that have none  *)
(* The data service itself is external: only what the code relies on is    *)
(* modelled, and what it leaves open is left open here.                    *)
(***************************************************************************)
EXTENDS Naturals

CONSTANTS
    Names,      \* values of the overridden field
    Urls,       \* elements of the united field
    MaxRepeats, \* bound: how often an array of a payload repeats a url
    Undefined,  \* the value of a property that is not there
    Absent      \* what is stored under an id that has no document

\* Arrays of urls: how often each is in it, whatever their order.
Arrays == [Urls -> 0..MaxRepeats]

\* Undefined is no value a field can hold, Absent no document.
ASSUME NamesAssumption == Undefined \notin Names \cup Arrays

ASSUME RepeatsAssumption == MaxRepeats \in Nat \ {0}

\* The properties of a document, with _etag left out: a request's payload.
Fields == [name : Names \cup {Undefined}, pages : Arrays \cup {Undefined}]

HasPages(body) == body.pages # Undefined

\* The urls in the array of a document, none if it has no array.
Listed(body) == IF HasPages(body) THEN {u \in Urls : body.pages[u] > 0} ELSE {}

\* A request that carries no _etag sends no access condition.
NoEtag == 0

\* Every successful write gives the document an _etag never used before.
Documents == [etag : Nat \ {NoEtag}, body : Fields]

ASSUME AbsentAssumption == Absent \notin Documents \cup Fields

\* The custom merge spreads both arrays, and throws a TypeError when the one
\* of the payload meets none in what is stored. It is not called for a payload
\* that has none.
CanMerge(stored, payload) == HasPages(payload) => HasPages(stored)

\* _.uniq([...target, ...source])
ConcatUniq(target, source) == [u \in Urls |-> IF target[u] + source[u] > 0 THEN 1 ELSE 0]

\* The merge keeps a stored value the payload leaves undefined, and overrides
\* the others but the pages.
MergeBodies(stored, payload) ==
    [name  |-> IF payload.name = Undefined THEN stored.name ELSE payload.name,
     pages |-> IF HasPages(payload) THEN ConcatUniq(stored.pages, payload.pages)
               ELSE stored.pages]

\* upsertItem() of an item: getOptions() sends IfMatch with the item's _etag if
\* it has one. The service accepts a write whose condition names the stored
\* _etag, and refuses (412) one that names another. What it does with a
\* condition on a document that is no longer there is left open: both hold.
UpsertAcceptedAlways(stored, etag) == TRUE  \* Mutant: getOptions() sends no IfMatch.

UpsertAccepted(stored, etag) ==
    etag # NoEtag /\ stored # Absent => stored.etag = etag

UpsertRefused(stored, etag) ==
    /\ etag # NoEtag
    /\ stored # Absent => stored.etag # etag
==============================================================================
