# Verification of the Web Insights service

TLA+ models of the Web Insights service (`src/packages`), their model checking
with TLC, and proofs about them with TLAPS. `PROJECT.json` says which lines each
definition models, what can go wrong at which line, which run or theorem speaks
of it, and which change of the code each property would catch.

## The system

Websites, their pages and the accessibility scans of both are documents in Azure
Cosmos DB. A REST API (Azure Functions, `storage-web-api`) creates, updates and
reads them, scanners write results through the same data providers
(`service-library`), work is passed on in storage queues, and a cron job
(`e2e-test-runner`) tests a deployment whose health the web API reports to the
release pipeline. Function hosts and jobs are Node.js processes: within one,
handlers interleave at every `await`; several processes share only the database,
the queues, the key vault and Application Insights.

| Part | State it keeps | Operations | Talks to |
| --- | --- | --- | --- |
| Cosmos container client (`azure-services/src/storage`, `azure-cosmos`) | none; documents with `_etag` in the database | read, write, merge-or-write, delete, queries in pages, batches, `tryExecuteOperation` | data providers above, Cosmos DB below |
| Website create and update (`post-website-controller.ts`, `website-provider.ts`) | website and page documents | POST website: write the website, list its pages, create the missing ones | container client |
| Page update, GET website | page and website documents | POST page, GET website | container client |
| Website scans, page scans (controllers, `*-scan-provider.ts`) | documents of scans | POST scan, GET scan by id or latest, updates by scanners | container client, ids |
| Ids and partition keys (`guid-generator.ts`, `partition-key-factory.ts`, `hash-generator.ts`) | none | id of a related document, partition of an id | all data providers |
| Authorization (`azure-auth`) | cached list of who may call, a mutex | `authorize()`, `getAcl()` | key vault, every request |
| Managed identity credential (`credentials`) | cached tokens, a mutex | `getToken()` | instance metadata service; all Azure clients |
| Storage queue (`azure-queue/queue.ts`) | queue and dead queue in the service | create, receive, delete messages, move to the dead queue | storage service |
| End-to-end runner (`e2e-test-runner`), storage client (`storage-api-client`) | the test website, what a run has submitted | set up, run the tests of a phase, submit a scan, clean up, finalize; sign and send a request, try it again | web API, database, blob storage, Application Insights |
| Health report, deployment health client | events in Application Insights | report, poll | Application Insights, web API |
| Web request pipeline | the current request | dispatch, authorize, validate, handle, answer | controllers |
| Request validators (`request-validators`, `api-request-validator.ts`) | none | check version, content and properties of a request in order | pipeline |
| Shared instances (`dependency-injection`, `service-configuration.ts`) | one promise per instance | get or create | every component |
| Logger | initialization status of its clients | `setup()`, log, flush | Application Insights, console |

What is hard here, and what makes each part correct:

* **Documents.** A merge is read, merge in memory, conditional write. Correct:
  no acknowledged change is lost, a refusal has a reason, and callers see what an
  atomic store would show them, apart from two exceptions named below.
* **POST website.** Several documents, no transaction, concurrent creations,
  several requests for one website, hosts that stop half-way. Correct: an
  acknowledged request leaves a website whose every known page exists, duplicates
  come only from requests that overlap or follow a failed one whose creations still
  go on, and a failed request can be repeated.
* **Scans.** Documents are found only if everybody derives the same partition, and
  queries run while their results change. Correct: what was acknowledged is found,
  the latest scan is the latest, a response is complete.
* **Authorization.** A cache looked up outside its mutex, three reads that are no
  snapshot, failures half-way. Correct: nobody goes back to an older list, replaced
  secrets go out of use, no failed read is cached, the mutex is always released.
* **Credential.** The time to live of a cached token is a difference of two times.
  Correct: an expired token is never served, at most one call at a time.
* **Queue.** At-least-once delivery, stale receipts, a move to the dead queue in
  two steps. Correct: acknowledged messages survive, none is handed out too often.
* **Health.** Events are found late and in any order; a report combines two queries
  about runs that may be over, under way or dead. Correct: a deployment passes only
  on evidence of a whole run, and the checker always ends.
* **End-to-end tests.** A client that repeats requests the service may still serve,
  tests that run side by side and share clients, runs that are killed, and what
  earlier runs have left behind. Correct: a test that fails has met with a fault that
  retries do not make up for (the test of the latest scan has another cause, see
  "Findings"), what tests create is deleted, a run ends.
* **Processes and requests.** Many requests share one start of the process, one
  promise of the configuration and the loggers that wait for it. Correct: one start,
  nobody served before it, answers that agree with the documents, no request that
  is never answered.

## Modules

| Module | Models | State and steps |
| --- | --- | --- |
| `CosmosContainer` | a document, its `_etag`, the conditional upsert and the merge | operators only; a document is a field the last writer overrides and an array that is united (`knownPages`: how often it holds each URL), which documents of pages and scans do not have |
| `DocumentStore` | what concurrent callers of the container client are promised | abstract: each request acts on its document at most once, in one step |
| `MergeOrWrite` | `mergeOrWriteDocument()`, `deleteDocument()`, one action per call to the database and outcome | `store` the documents, `pc`/`seen` the local state of the method, `outcome` what the caller is told; `merged` and `effective` are history |
| `PostWebsite` | `PostWebsiteController.handleRequest()` | `sites`, `pages` the documents; `known`, `listed`, `newPages`, `pending` the local variables and open promises; steps as `MergeOrWrite` proves them for one document; `earlier`, `leftover` (the creations that still went on behind error responses when a request came in) and `overwritten` are history |
| `WebsiteScans` | POST and GET scan controllers, scan providers, partition keys | `scans`, `pageScans` documents with partition and time stamp; `position` the continuation token |
| `AclCache` | `AclProvider`, `AzureAdAuth.authorize()` | versions of three secrets, cached ACL, the queue of the mutex, each request's half-read ACL |
| `ManagedCredential` | `AzureManagedCredential.getToken()` | token cache with times to live, mutex, each caller's call |
| `StorageQueue` | `Queue` | where each copy of a message is, receipts, each worker's batch and what it holds |
| `ApiRequests` | the validators of the web API and the codes of errors | operators only: a request is an operation and its flaws, `Answer` the status of the first check that fails |
| `EndToEndTests` | `E2ETestRunner` with its scenario, tests and cleanup, `WebInsightsStorageClient`, shared clients | `phase`, `at` and `verdict` the run and what each test is at, `instances` the promises of clients, `net` requests in transit, `websites`/`pages`/`scans` documents, `newest` the scans with the latest time stamp; `recent`, `troubled`, `orphans`, `killed` are history |
| `DeploymentHealth` | `E2ETestRunner`, its scenarios, the health report and `DeploymentHealthChecker` | the run and its scenarios, events in transit and visible, the two query answers, the checker's clock |
| `WebHost` | `processWebRequest()` and all below it down to the controllers of GET website and POST page | `dispatcher` and `config` the two shared promises, `ready`/`polls` the loggers, `pc`/`response` the requests, `docs` the updates each document has taken in |

`MergeOrWrite` implements `DocumentStore` under a refinement mapping
(`StorePromise`); `PostWebsite` uses the steps of `DocumentStore` for the website
document, so that a step of it stands for the whole of `updateWebsite()`, and
`WebHost` has the same steps for a page.
`EndToEndTests` sends the flawed requests of the tests through `ApiRequests`, and
abstracts each controller to one step of the service, as `PostWebsite`,
`WebsiteScans` and `WebHost` describe it.
`WebsiteScans` takes from `PostWebsite` only that a page's id has its website's
node. The `MC…` modules name payloads and other constants for TLC; the modules
`…_proofs` hold the theorems. The operators marked "Mutant" are changes of the
code a property must notice; nothing in a specification uses them.

### Abstractions

* The data service is external. A call to it takes effect in one step between the
  steps of other requests, or fails without an effect, or takes effect and its
  answer is lost. Reads see all earlier writes: the template
  (`cosmos-db.template.json:32`) asks for session consistency, which promises this
  within one client; between hosts a read may be stale. A stale document is refused
  at its conditional write like any outdated one, and a stale 404 leads to the
  overwriting that `merge_overwrite` shows anyway. Stale queries of pages or scans
  by another host are not modelled.
* A call to the data service that failed has no effect later on. (In
  `EndToEndTests`, requests are served even after their connection broke.)
* Arrays of URLs are counts, as their order matters to nobody. A website has one:
  `POST /websites` requires it. A page or a scan has none, and an id is that of one
  or the other kind, so that a payload with `knownPages` never meets a document
  without; it meets none only after a read that failed, and then the merge throws.
* A website is abstracted to its `knownPages`, and the scan type of a scan is folded
  into the website: requests of different types never look at the same documents.
* `node-cache` serves an item until its time to live is over; 0 means for ever
  (`ManagedCredential`). `async-mutex` serves its waiters in order. Both are
  external, modelled from their use here.
* An ACL is three version numbers; 0 stands for a part that could not be read, and
  `Blank` names versions that are empty, which `validateAcl()` refuses. Time counts
  in ticks; the time to live of the cache is some number of them above 0.
* Ids are uuid version 6, whose node part is drawn once per process: two websites
  may share it, and so a partition. The hash of the node is left arbitrary.
* The scans of a scenario are submitted in one step. The cron job forbids
  concurrent runs (`concurrencyPolicy: Forbid`), so runs follow each other. A job
  that is killed loses only its own unsent events. The time range of the health
  queries is left out, so an event that was found stays found.
* In `EndToEndTests` the service acts on a request in one step at any time after it
  was sent, and a request that failed may have written what its controller writes
  first. The repetitions of GET requests by `got` itself and those of the token are
  part of one try. The refusal tests of a phase change nothing and are one step; a
  fault makes one of them fail. Pages of a website are deleted in one step, and what
  was created is named by the request that created it. The status of a refused
  request is compared alone, as the tests do, and each such request has one flaw, so
  that nothing is said about the order of the checks. The first run finds no test
  website. Of time, only the order is kept, and whether scans share their second; a
  scanner may update any scan at any time.
* In `WebHost` a request has a token that the list grants access, or not, and
  passes its validator, or not; a good token may be refused, as it is while no valid
  list can be read. Time is the number of polls of a logger. A process that stops
  takes its requests with it; they fail for their callers, whatever they have done.

## Runs

| Run | Instance | Shows |
| --- | --- | --- |
| `merge` | 3 requests (merge or delete) on 1 document, of a website or of a page, initially there or not; 2 payloads of websites with different pages, one of which names a page twice and leaves the other field alone; 1 payload of a page; arrays hold a URL at most twice | no page lost, conflicts have rivals, refinement of `DocumentStore` |
| `post_website` | 2 requests, 2 websites, 3 payloads: one page, two pages, one page twice | what an acknowledged POST leaves, duplicates only by overlap or behind a failed request |
| `acl` | 3 requests, 3 secrets, two of them with 2 versions, one version empty, time to live 1, clock 0–2 | no way back to older versions, mixtures only by a rotation during the read, replaced versions go out of use, mutex handed on, only valid lists served |
| `queue` | 1 message, 2 attempts (2 copies), 2 workers, batches of 2, dequeue limit 1, each copy received 3 times at most | acknowledged messages survive, no copy handed out more often than the limit, the dead queue holds what was tried and not finished, calls end |
| `credential` | 2 callers, 2 resources, lifetimes below and above the margin, clock 0–5 | tokens served are valid, one call at a time, none without need, calls end |
| `scans` | 2 websites in 1 partition, 2 POSTs, 1 GET, 2 page scans, 2 seconds | acknowledged scans are found, latest is newest, responses complete, requests answered |
| `deployment_health` | 2 runs of 1 scenario with 1 test before its scan, waits and timeout of 1 | a pass needs a completed run, a settled report tells what happened, the checker ends |
| `web_host` | 2 requests of any kind for 1 document, there or not, 2 polls until the timeout, 1 stop of the process | one start for all and nobody served before it, answers agree with the documents, every request answered |
| `e2e` | 2 runs one after the other, 2 tries of each call (the code has 5), 2 faults of any kind, updates of scans and ties of their time stamps at any time | a test that fails has a cause, nothing left behind without a cause, a client that could not be made stays away and silences its run, every run ends |
| `merge_overwrite`, `merge_stray`, `credential_forever` | small instances of the same modules | the disagreements listed under "Findings" |

Why these bounds. Three merges are the least in which a request that was
overtaken overtakes another, and one document suffices as merges of different
documents share nothing but the order of `_etag`s (the proofs hold for any
number). Every safety property is also proved for all constants, so that the
runs of `post_website` and `credential` need only reach every action. Three
requests are needed for the ACL: one that filled the cache, one that waited for
the mutex meanwhile, one that comes later; one rotation of two secrets gives both
orders of old and new, and with a time to live of 1 three moments tell live from
expired. Two copies of a
message, two workers and three receives give a receipt that is stale, a copy that
goes to the dead queue while it is held, and a batch with one message of each
kind. A lifetime of 1 gives a negative time to live, one of 3 a positive one, and
five ticks let an item expire and be fetched again; the lifetime of exactly 2 is
the subject of a run of its own. Two runs of the suite are what a mixed report
needs; a second scenario or a test after the scans multiplies the order of events
and adds no new relation between finalizer, test results and availability. Two
requests are what it takes to meet a start under way, two polls tell a client that
is late from one that is too late, and after one stop a process starts again with
requests that come in before it is ready.

For the end-to-end tests, the second run meets with what the first left behind, a
second try is what creates something twice, and two faults are a call that fails in
all its tries, or a lost answer and a job that is killed; more tries need more faults
and lead to the same.

Deadlock is checked in `queue`, `credential`, `credential_forever`: those systems never stop. In
the others each request is answered once, the checker decides once, and bounds
end the rest.

### Fairness

Fairness is weak for what a handler does next: the event loop runs the
continuation of every settled promise, and every call to a service settles, as
the clients report an answer, an error or a timeout. `WriteFails`, `CallFails`,
`Fail` and the like belong to that step, so a property never relies on a success.

* `ManagedCredential`: strong fairness of getting in (`Hit` or `Miss`), since the
  mutex serves callers in order; `got` without a timeout option waits on the
  socket for as long as it takes. That it ends is an assumption on the metadata
  service of the host.
* `StorageQueue`: a call to get messages that is under way goes on; no sender or
  worker need do anything, and no visibility timeout need end.
* `WebsiteScans`: requests go on; scanner, clock and creation of websites need not.
* `EndToEndTests`: a run goes on, as its timers fire and each call is answered or its
  connection breaks. Nothing is assumed of requests that nobody waits for, and
  neither the schedule nor any fault has to do anything.
* `DeploymentHealth`: the checker's clock and calls go on; nothing is assumed of
  the job or of Application Insights.
* `WebHost`: the start of the process and the requests go on, as timers fire and
  calls settle; a flush of telemetry is taken to call back. Nothing is assumed of the
  configuration file or of the logger clients, and nothing makes a process stop.
* `MergeOrWrite` and `PostWebsite` have no fairness: their properties are of safety.
* `AclCache` has no fairness: instead of "every request is decided", the invariant
  `MutexIsHandedOn` says that whoever reads is at the head of the queue of the
  mutex, and that exactly the undecided requests are in that queue.

## Proofs

All are checked by TLAPS for any values of the constants that satisfy the
assumptions of the module; TLC checked each invariant first.

**`MergeOrWrite_proofs`.** The properties are not inductive by themselves: that a
conditional write loses nothing rests on what an `_etag` means. The inductive
invariant adds `EtagsIssued` (no `_etag` is ahead of the last one given out),
`EtagIdentifies` (a stored document with the `_etag` a request read is the
document it read) and `RivalKnown` (if that document has changed, some other
request changed it). So a write that passes its condition writes the merge of the
document it replaces (lemma `MergesWhatItReplaces`), which gives `NoUpdateLost`,
`ConflictsHaveRivals` and, action by action, `ImplementsDocumentStore`:
`Spec => StorePromise`. `RepeatedMergeAddsNothing` is why a client may repeat a merge:
while the document holds what a request merged into it, a second merge of the same payload,
whatever others did in between, neither adds nor drops a page, and leaves no URL in
the array twice. It rests on `NoPageLost` and on the `_etag`, not on the union alone:
what is merged is the document read, and that must still be the stored one.
Assumed: `_etag`s are never reused, the markers for "no document", "no item"
and "undefined" differ from values, and the bound on repetitions is not 0.

**`PostWebsite_proofs`.** `Invariance` shows an inductive invariant of twelve named
parts. `CreateIsAlone` and `SitesAreNamed` keep a generated id from being used
before its website exists; `KnownIsStored` and `PayloadIsKnown` relate what a
request knows to the stored website; `PagesHaveMaker`, `ListIsComplete` and
`PendingAreNew` say that a page yet to be created was not there when the request
came in, `EarlierAnswered` that an answered request begins no creation it was not
busy with before - the exception `SettledBefore` makes is for those alone;
`NothingMissing` that each known page is there or about to be.
The theorems `PagesExist`, `NoUnknownPages`, `DuplicatesOverlap` and
`PagesStayKnown` follow. There is one lemma per action.

**`AzureServices_proofs`, the credential.** `MutexInv`, `TokenInv`, `CacheInv` and `AskInv`:
the caller that asks has the mutex, answers are at most `MaxDelay` old, and a
cached token has the time to live the code gives it, so that
`storedAt + ttl <= issued + MaxDelay + expiresIn - Margin < expiresAt` by
`MaxDelay < Margin`, the assumption the reduced time to live is made for.
`CacheLives` needs `Margin \notin Lifetimes` as well: the run
`credential_forever` shows what happens otherwise. `CallsAreNeeded` and
`TokensMatch` (every caller gets a token of the resource it asked for) need neither.
`MutexIsGivenBack`: whoever waits finds the mutex free or at a caller that asks, and
it leaves that caller only free and only when the call is over, failed or not.

**`AclCache_proofs`.** The properties are about a history of arbitrary length, so
the invariant has two halves. One is about order: what is read under the mutex is at
least as new as the cache (`ReadsAreNewer`), nobody else stores meanwhile
(`MutexIsHandedOn`, `WaitsOnce`), and every ACL that was handed out is covered by
the cache (`CacheCovers`). So the cache only gets newer: `NeverGoesBack`,
`MutexGoesOn`. The other is about time: when a version was replaced bounds when it
can have been read, then cached, then got from the cache (`ReadBeforeChange`,
`CachedBeforeChange`), which gives `OldVersionsExpire`. `OnlySoundAcls` adds that what was read without a
change meanwhile is current (`ReadsAreCurrent`), and that only valid ACLs are stored.

**`AzureServices_proofs`, the queue.** The dequeue count of a copy only grows and decides for good
what becomes of it: `ToBeReturned` and `HandedInTime` have receipts up to
`MaxDequeueCount`, `ToBeMoved` and `DeadIsOver` above it, so no copy is both finished
and dead. `MovingIsSent` is the order of sending to the dead queue before deleting.
`NothingAcknowledgedIsLost` follows; `NotHandedTooOften` counts the receipts, which
are distinct, by an injection into `1 .. MaxDequeueCount`. `DeadQueueHoldsFailures`
assumes `MaxDequeueCount # 0`: otherwise every message is moved untried. For calls
that end there is a second invariant, `NotTooMany`: a call has fewer messages than it
was asked for whenever it receives again (`NoMoreThanAsked`), and as the receipts it
has are older than those of a receive, a batch with a message to return brings new
ones (lemma `BatchIsNew`, which is also why sets stand for the code's arrays). So each
step leads on (`CallsGoForward`). Both assume finitely many messages.

**`WebsiteScans_proofs`.** A scan and its page scans are stored where the id of the
website says (`ScansAreSound`, `PageScansAreSound`), so that the two ways to a
partition agree and the query sees all there is (lemma `RemainingIsAll`).
`SomeIsLatest` is inductive because whatever is written has the time of now.
What a request has collected is exactly the scan's page scans up to the continuation
token (`FetchedInOrder`). Steps that write documents disturb the requests only as
`ScansRemain` and `PageScansRemain` allow. `ScansAreFound`, `LatestIsRight` and
`ResponsesAreComplete` follow, for any assignment of websites to nodes.

**`DeploymentHealth_proofs`.** `EventsKept` and `DoneReported`: while a run is active
and once it came to its end, none of its events is lost and each scenario that is
done has reported; `CompletedIsOver`: only such a run has the finalizer's event.
`ReportsTellWhatHappened` assumes that there is a scenario.

**`WebHost_proofs`.** `OneStart` (the promise of the dispatcher is the trace of the one
start), `Admitted` (what each request has passed to come so far) and `DocsStay` give
`OneStartServesAll` and `AnswersStayTrue`. Assumed: the marker of a missing document
is no set of updates.

A second invariant, `NotStranded`, says that whoever
awaits the promise of the dispatcher awaits a start that was made: nobody waits in vain
(`NobodyWaitsInVain`), and each step of a handler or of the start leads to a later
stage or is one of the `MaxPolls` polls (`RequestsGoForward`).

**`EndToEndTests_proofs`.** That failures and leftovers have a cause is inductive only
together with how the causes come about. `BreaksCounted`: the tries before the present
one all broke, so that a caller without a try left is `troubled`. `InstancesSound` and
`Untouched`: without the client of the web API nobody has called, which gives
`RejectedClientSilencesRun`. `PhasesInOrder`: a phase starts when those before it are
over, with the test website in place. `ScansSound`: the latest scans are among those
written or updated since that of the run, or in its second, and every other scan of
the run is one that nobody was told of. `CleanupSound`: the website to delete is the answer to a request
that is over, so that no repetition creates it again after its deletion, and its pages
go first. The centre is the lemma `Heard`: of all the answers that a waiting test can
get, only a latest scan of somebody else's does not pass. `FailuresExplained`
and `NothingLeftBehind` follow; that the requests of the refusal tests get the
expected status is a lemma (`AllRefused`), by the tables of `ApiRequests`. For the end of runs, `InTransit` (a test waits only for a request that is with the
service) and `ThrownBySubmit` give `RunsNeverHang`: a run that has not ended can go on
without a fault, by one of the steps that `CanGoOn` lists. `RunsGoForward` says what
such steps do: each one gives a verdict, an instance, a call, a try or a phase that no
later step of the run takes back, or takes one of the requests nobody waits for.
Assumed: `MaxTries # 0`, and the test website is named by no request.

Only model-checked: liveness. Liveness under fairness and `ENABLED` are out of the
prover's reach, so `EveryRunEnds`, `EveryCallEnds`, `EveryCallerServed`,
`EveryRequestAnswered` and `EveryCheckEnds` are TLC's. What the first three, and that
of `WebHost`, rest on is proved, for any values of the constants: that something can be done
while there is anything to wait for, and that what is done leads on. Left to fairness is
that it is done. For the guards that these theorems name, TLC has compared them with
`ENABLED` of the steps they stand for on the runs' instances. Out of reach, too, are induction over data (the library's theorems take operators
as parameters) and RECURSIVE operators; no module here uses one.

## Findings

1. `merge_overwrite`: after a 404, `mergeOrWriteDocument()`
   (`cosmos-container-client.ts:105`) writes without a condition; a document created
   in between is replaced, not merged as line 73 says.
2. `merge_stray`: any other read status is taken for success (line 115). A payload
   without `knownPages`, of a page or a scan, is dropped, a document without
   properties is written, and the caller gets 200. With the payload of a website the
   customizer of the merge throws (`website-provider.ts:38`), and nothing is written.
3. `credential_forever`: a token with `expires_in` of exactly 1200 seconds gets a
   time to live of 0, which the cache takes for "never"
   (`azure-managed-credential.ts:75`).

Three more are told by what a property excepts. `ReportsCount` speaks of settled
reports only: a deployment may pass on a run whose failed test is not found yet, or
on the availability of another run (`health-check-queries.ts:36`), although the
finalizer is meant to indicate a completed run (`finalizer-test-group.ts:14`).
`LeftoverHasCause` lists when a new website is not cleaned up, although the comment
of the test says "always" (`post-website-test-group.ts:50`): its answer was lost and
the request sent again, its run was killed, or its deletion failed. `FailureHasCause`
excepts the test of the latest scan, which fails without a fault if another scan gets
the time stamp of the one submitted, or a later one: the query orders by seconds
(`website-scan-provider.ts:79`), and an update of an old scan refreshes its time
stamp (`website-scan-provider.ts:42`).

The promise of `DocumentStore` names the first two as actions of their own
(`WriteOver`, `AcknowledgeOnly`), so the refinement says that nothing *else*
deviates from an atomic store; `PostWebsite` inherits the first (`overwritten`). That
a refused merge (412) is never tried again is described by the models, and no
property objects to it.

## Not modelled

* Of the container client: the batches (`writeDocuments`, `mergeOrWriteDocuments`),
  `tryExecuteOperation` and `readAllItems`, which nothing in the repository calls; of
  the scan providers `updatePageScan` and `getLatestPageScan`, for the same reason.
* Of the storage client: `postPage`, `pingHealth` and `getHealthReport`, which
  repeat requests as the modelled operations do.
* The composition of the request pipeline with `AclCache` and with the controllers
  that have modules of their own: the state spaces multiply, and the pipeline shares
  with them only the request (`WebHost` takes a refusal for a possible outcome of
  every authorization).
* `jumpConsistentHash()`, `getBuckets()`, `HashSet` and `chunkArray()`: sequential,
  and covered by the unit tests; partitions are an arbitrary function of ids here.
* That a query may return empty pages, which `cosmos-client-wrapper.ts:144` skips: a
  page of results in `WebsiteScans` is never empty.
* Types of documents and contracts have no behaviour, the registration of services
  beyond the shared clients binds types, and deployment scripts and templates are
  commands to the cloud.

Some behaviour that may surprise has no property, because nothing in the repository
says what is right, or because the callers are elsewhere. A repeated POST scan makes
a second scan. GET scan does not compare the website of the route with the scan's.
`createPageScan()` (`page-scan-provider.ts:22`) creates a second document if it is
called twice for a page of a scan, which `page-scan.ts:14` excludes: that is up to
the scanners. `expiresOnTimestamp` is in seconds where the Azure library counts in
milliseconds. POST page answers 404 whatever kept it from reading the page. A start
that failed fails every request until the process is restarted.

## Plan

Done, in this order: documents and their abstract store, POST website on top,
authorization, credential, queue, scans, deployment health, web host, validators and
end-to-end tests.

Every invariant and action property that a run checks is proved, and so is the
refinement. Left are steps towards liveness for `WebsiteScans` and `DeploymentHealth`,
where they say less: a request there waits for nobody, and the checker needs its clock.
