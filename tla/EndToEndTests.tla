---------------------------- MODULE EndToEndTests ----------------------------
(***************************************************************************)
(* The end-to-end tests, which a cron job starts over and over, at most    *)
(* one run at a time (cron-job.yaml): a run sets up the test website, runs *)
(* a phase of tests, submits a scan, runs another phase and finalizes      *)
(* (e2e-test-runner.ts, test-scenario-driver.ts). It calls the web API     *)
(* through the storage client, which sends a request again if its          *)
(* connection breaks - even if the service goes on to serve it.            *)
(*                                                                         *)
(* The service acts on a request in one step, at any time after it was     *)
(* sent; PostWebsite, WebsiteScans and WebHost describe how it does that.  *)
(* What a request creates is named by the request.                         *)
(***************************************************************************)
EXTENDS Naturals, SequencesExt, FiniteSets, ApiRequests

CONSTANTS
    MaxRuns,    \* bound: how many runs are started
    MaxTries,   \* maxRetryCount
    MaxFaults,  \* bound on the faults
    TestSite    \* the website of test-website.json, which has an id

ASSUME BoundsAssumption == MaxRuns \in Nat /\ MaxTries \in Nat \ {0} /\ MaxFaults \in Nat

-------------------------------------------------------------------------------
(***************************************************************************)
(* The tests: the calls each makes, the answers it expects, and whether it *)
(* expects the scan that its run submitted                                 *)
(***************************************************************************)
Expect(call, statuses) == [call |-> call, statuses |-> statuses, own |-> FALSE]

ExpectOwnScan(call, statuses) == [call |-> call, statuses |-> statuses, own |-> TRUE]

\* isSuccessStatusCode()
SuccessCodes == 200 .. 299

\* ensureResponseSuccessStatusCode()
EnsuredCodes == 200 .. 300

SetUp == << Expect("postTestSite", SuccessCodes) >>

SubmitTestScan == << Expect("postScan", SuccessCodes) >>

GetWebsiteSucceeds == << Expect("getTestSite", EnsuredCodes) >>

\* Every website that is created is answered with 201; its cleanup follows.
PostNewWebsite == << Expect("getTestSite", EnsuredCodes), Expect("postNewSite", EnsuredCodes) >>

\* The test website has all its pages.
PostExistingWebsite == << Expect("getTestSite", EnsuredCodes), Expect("postTestSite", {200}) >>

GetScanWithId == << ExpectOwnScan("getScan", EnsuredCodes) >>

GetLatestScan == << ExpectOwnScan("getLatestScan", EnsuredCodes) >>

\* Tests that the service refuses a request with the given flaws.
Refuses(api, flaws, code) == [request |-> [api |-> api, flaws |-> flaws], code |-> code]

GetWebsiteRefusals ==
    { Refuses("getWebsite", {"badId"}, "invalidResourceId"),
      Refuses("getWebsite", {"unknownId"}, "resourceNotFound") }

PostWebsiteRefusals ==
    { Refuses("postWebsite", {"malformed"}, "malformedRequest"),
      Refuses("postWebsite", {"pages"}, "malformedRequest"),
      Refuses("postWebsite", {"badId"}, "invalidResourceId") }

PostWebsiteScanRefusals ==
    { Refuses("postWebsiteScan", {"noId"}, "malformedRequest"),
      Refuses("postWebsiteScan", {"badId"}, "invalidResourceId"),
      Refuses("postWebsiteScan", {"unknownId"}, "resourceNotFound"),
      Refuses("postWebsiteScan", {"badFrequency"}, "invalidFrequencyExpression") }
    \cup { Refuses("postWebsiteScan", PriorityFlaws(priority), "outOfRangePriority") :
             priority \in {9999, 0 - 9999} }

GetWebsiteScanRefusals ==
    { Refuses("getWebsiteScan", {"badId"}, "invalidResourceId"),
      Refuses("getWebsiteScan", {"badScanId"}, "invalidResourceId"),
      Refuses("getWebsiteScan", {"badScanType"}, "invalidScanType") }

Script ==
    [ setUp               |-> SetUp,
      getWebsiteSucceeds  |-> GetWebsiteSucceeds,
      postNewWebsite      |-> PostNewWebsite,
      postExistingWebsite |-> PostExistingWebsite,
      submitTestScan      |-> SubmitTestScan,
      getScanWithId       |-> GetScanWithId,
      getLatestScan       |-> GetLatestScan ]

Callers == DOMAIN Script

Refusals ==
    [ beforeScan |-> GetWebsiteRefusals \cup PostWebsiteRefusals \cup PostWebsiteScanRefusals,
      afterScan  |-> GetWebsiteScanRefusals ]

\* expectWebApiErrorResponse() compares the status alone.
IsRefused(test) == Answer(test.request) = StatusCode[test.code]

\* Who is active in which phase: testPhases of the scenario, and the steps between them.
Phases ==
    [ setUp      |-> {"setUp"},
      beforeScan |-> {"getWebsiteSucceeds", "postNewWebsite", "postExistingWebsite"},
      submit     |-> {"submitTestScan"},
      afterScan  |-> {"getScanWithId", "getLatestScan"} ]

Runs == 1 .. MaxRuns

\* A request: the try of a caller's call.
Requests == [run : Runs, caller : Callers, call : 1 .. 2, try : 1 .. MaxTries]

ASSUME TestSiteAssumption == TestSite \notin Requests

NoRequest == TestSite

-------------------------------------------------------------------------------
VARIABLES
    run,           \* number of runs started
    phase,         \* "idle", a phase, or "finalize"
    instances,     \* promises of shared instances: "none", "made" or "rejected"
    at,            \* at[c]: the call that c is at, its try, and whether it was sent
    cleanup,       \* what postNewWebsite still has to delete: "none", "pages", "website"
    verdict,       \* verdict[c]: "none", "pass" or "fail"
    refused,       \* refused[p]: verdict of the refusal tests of phase p
    newSite,       \* the website that postNewWebsite has created
    scanId,        \* the scan that was submitted
    availability,  \* availability result of the scenario: "none", "success", "failure"
    finalized,     \* the event of the finalizer was tracked
    net,           \* requests the service has received and not served
    websites,      \* websites that exist, and
    pages,         \*   those whose pages exist
    scans,         \* scans of the test website, and
    newest,        \*   those written or updated in the latest second that one was
    recent,        \* history: scans written or updated in the second in which that of
                   \*   the run was written, or later
    faults,        \* how many faults there were
    breaks,        \* history: tries of the present call that broke
    troubled,      \* history: who met with a fault that nothing makes up for, and the
                   \*   instances that could not be made
    killed,        \* history: runs that were killed
    orphans        \* history: what was created and nobody was told of, or nobody is
                   \*   left to delete

runner == <<run, phase, availability, finalized>>

tests == <<at, cleanup, verdict, refused, newSite, scanId>>

ofScans == <<scans, newest, recent>>

service == <<net, websites, pages, ofScans>>

history == <<breaks, troubled, killed, orphans>>

vars == <<runner, instances, tests, service, faults, history>>

Start == [call |-> 1, try |-> 1, sent |-> FALSE]

NoInstances == [i \in {"blob", "webClient", "cosmos"} |-> "none"]

AllAtStart == [c \in Callers |-> Start]

NoVerdicts == [c \in Callers |-> "none"]

NoRefusals == [p \in DOMAIN Refusals |-> "none"]

NoBreaks == [c \in Callers |-> 0]

Init ==
    /\ run = 0
    /\ phase = "idle"
    /\ instances = NoInstances
    /\ at = AllAtStart
    /\ cleanup = "none"
    /\ verdict = NoVerdicts
    /\ refused = NoRefusals
    /\ newSite = NoRequest
    /\ scanId = NoRequest
    /\ availability = "none"
    /\ finalized = FALSE
    /\ net = {}
    /\ websites = {}
    /\ pages = {}
    /\ scans = {}
    /\ newest = {}
    /\ recent = {}
    /\ faults = 0
    /\ breaks = NoBreaks
    /\ troubled = {}
    /\ killed = {}
    /\ orphans = {}

\* The schedule, or the controller of jobs if the process has failed, starts a process.
StartRun ==
    /\ phase = "idle"
    /\ run < MaxRuns
    /\ run' = run + 1
    /\ phase' = "setUp"
    /\ instances' = NoInstances
    /\ at' = AllAtStart
    /\ verdict' = NoVerdicts
    /\ refused' = NoRefusals
    /\ newSite' = NoRequest
    /\ scanId' = NoRequest
    /\ availability' = "none"
    /\ finalized' = FALSE
    /\ breaks' = NoBreaks
    /\ troubled' = {}
    /\ UNCHANGED <<cleanup, service, faults, killed, orphans>>

Fault == faults < MaxFaults /\ faults' = faults + 1

Fail(who) == troubled' = troubled \cup {who}

-------------------------------------------------------------------------------
(***************************************************************************)
(* Shared instances                                                        *)
(***************************************************************************)
\* Mutant: an instance that could not be made is made anew for the next caller.
IsNilOrRejected(i) == instances[i] # "made"

\* createInstanceIfNil(): the promise is kept, whatever comes of it.
IsNil(i) == instances[i] = "none"

\* The setup reads the test website from the blob storage.
SetUpAwaits(i) == phase = "setUp" /\ i = "blob"

\* The setup and the finalizer await the client of the web API; the tests between them
\* find it made.
ClientAwaits(i) ==
    /\ i = "webClient"
    /\ phase = "finalize" \/ (phase = "setUp" /\ instances["blob"] = "made")

\* Deleting a document awaits the client of the database.
CleanupAwaits(i) == cleanup # "none" /\ i = "cosmos"

\* What the run awaits
Awaited(i) == SetUpAwaits(i) \/ ClientAwaits(i) \/ CleanupAwaits(i)

\* The factory reads its secrets from the key vault, which may fail.
CreateInstance(i) ==
    /\ Awaited(i)
    /\ IsNil(i)
    /\ \/ /\ instances' = [instances EXCEPT ![i] = "made"]
          /\ UNCHANGED <<faults, troubled>>
       \/ Fault /\ instances' = [instances EXCEPT ![i] = "rejected"] /\ Fail(i)
    /\ UNCHANGED <<runner, tests, service, breaks, killed, orphans>>

-------------------------------------------------------------------------------
(***************************************************************************)
(* Calls of the web API                                                    *)
(***************************************************************************)
Calling(c) ==
    /\ phase \in DOMAIN Phases
    /\ c \in Phases[phase]
    /\ verdict[c] = "none"
    /\ c = "postNewWebsite" => cleanup = "none"
    /\ instances["webClient"] = "made"

Request(c) == [run |-> run, caller |-> c, call |-> at[c].call, try |-> at[c].try]

Waiting(m) == Calling(m.caller) /\ at[m.caller].sent /\ Request(m.caller) = m

CallOf(m) == Script[m.caller][m.call].call

\* The service may go on with these when nobody waits for them any more.
Lasting(requests) == {m \in requests : CallOf(m) \in {"postTestSite", "postNewSite", "postScan"}}

\* The request is signed and sent.
Send(c) ==
    /\ Calling(c)
    /\ ~at[c].sent
    /\ at' = [at EXCEPT ![c].sent = TRUE]
    /\ net' = net \cup {Request(c)}
    /\ UNCHANGED <<runner, instances, cleanup, verdict, refused, newSite, scanId, websites,
                   pages, ofScans, faults, history>>

Give(c, v) == verdict' = [verdict EXCEPT ![c] = v]

\* Mutants: one try less than maxRetryCount, or one more.
MoreTriesShort(c) == at[c].try + 1 < MaxTries

MoreTriesLong(c) == at[c].try <= MaxTries

MoreTries(c) == at[c].try < MaxTries

\* executeWithRetries(): the credential gives no token, or the connection breaks. The last
\* error is thrown: to the test runner, to the setup, or out of the run.
Break(c) ==
    /\ Calling(c)
    /\ Fault
    /\ net' = IF at[c].sent THEN (net \ {Request(c)}) \cup Lasting({Request(c)}) ELSE net
    /\ IF MoreTries(c)
       THEN /\ at' = [at EXCEPT ![c].try = @ + 1, ![c].sent = FALSE]
            /\ UNCHANGED verdict
       ELSE /\ Give(c, IF c = "submitTestScan" THEN "thrown" ELSE "fail")
            /\ UNCHANGED at
    /\ breaks' = [breaks EXCEPT ![c] = @ + 1]
    /\ troubled' = IF breaks'[c] = MaxTries THEN troubled \cup {c} ELSE troubled
    /\ UNCHANGED <<runner, instances, cleanup, refused, newSite, scanId, websites, pages,
                   ofScans, killed, orphans>>

\* A caller gets an answer, whose status is no error to the client.
Take(c, status, body) ==
    LET expected == Script[c][at[c].call]
        passes == status \in expected.statuses /\ (expected.own => body = scanId)
        isLast == at[c].call = Len(Script[c])
    IN  \/ /\ ~passes
           /\ Give(c, "fail")
           /\ UNCHANGED <<at, breaks, cleanup, newSite, scanId>>
        \/ /\ passes /\ ~isLast
           /\ at' = [at EXCEPT ![c] = [Start EXCEPT !.call = 2]]
           /\ breaks' = [breaks EXCEPT ![c] = 0]
           /\ UNCHANGED <<verdict, cleanup, newSite, scanId>>
        \/ /\ passes /\ isLast /\ c = "postNewWebsite"
           /\ newSite' = body
           /\ cleanup' = "pages"
           /\ UNCHANGED <<at, breaks, verdict, scanId>>
        \/ /\ passes /\ isLast /\ c # "postNewWebsite"
           /\ Give(c, "pass")
           /\ scanId' = IF c = "submitTestScan" THEN body ELSE scanId
           /\ UNCHANGED <<at, breaks, cleanup, newSite>>

Reply(m, status, body) ==
    /\ IF Waiting(m)
       THEN Take(m.caller, status, body) /\ UNCHANGED orphans
       ELSE /\ orphans' = orphans \cup {m}
            /\ UNCHANGED <<at, breaks, cleanup, verdict, newSite, scanId>>
    /\ UNCHANGED <<runner, instances, refused, faults, troubled, killed>>

\* The website with its id is written, and the pages that it knows are created.
PostTestSite(m) ==
    /\ CallOf(m) = "postTestSite"
    /\ websites' = websites \cup {TestSite}
    /\ pages' = pages \cup {TestSite}
    /\ Reply(m, IF TestSite \in pages THEN 200 ELSE 201, TestSite)
    /\ UNCHANGED ofScans

\* Without an id, a new one is generated.
PostNewSite(m) ==
    /\ CallOf(m) = "postNewSite"
    /\ websites' = websites \cup {m}
    /\ pages' = pages \cup {m}
    /\ Reply(m, 201, m)
    /\ UNCHANGED ofScans

\* Every write and every update of a scan gives it the time stamp of its second, which
\* may be that of those before it.
Stamp(scan) == newest' = {scan} \/ newest' = newest \cup {scan}

WriteScan(m) == scans' = scans \cup {m} /\ Stamp(m)

PostScan(m) ==
    /\ CallOf(m) = "postScan"
    /\ IF TestSite \in websites
       THEN /\ WriteScan(m)
            /\ recent' = IF Waiting(m) THEN newest' ELSE recent \cup {m}
            /\ Reply(m, 201, m)
       ELSE UNCHANGED ofScans /\ Reply(m, StatusCode.resourceNotFound, NoRequest)
    /\ UNCHANGED <<websites, pages>>

GetTestSite(m) ==
    /\ CallOf(m) = "getTestSite"
    /\ Reply(m, IF TestSite \in websites THEN 200 ELSE StatusCode.resourceNotFound, TestSite)
    /\ UNCHANGED <<websites, pages, ofScans>>

GetScan(m) ==
    /\ CallOf(m) = "getScan"
    /\ Reply(m, IF scanId \in scans THEN 200 ELSE StatusCode.resourceNotFound, scanId)
    /\ UNCHANGED <<websites, pages, ofScans>>

\* getLatestScanForWebsite(): SELECT TOP 1 ... ORDER BY _ts DESC. Time stamps are whole
\* seconds, any of those that share the latest one may come first.
LatestScans == newest

GetLatest(m) ==
    /\ CallOf(m) = "getLatestScan"
    /\ \/ scans = {} /\ Reply(m, StatusCode.resourceNotFound, NoRequest)
       \/ \E scan \in LatestScans : Reply(m, 200, scan)
    /\ UNCHANGED <<websites, pages, ofScans>>

Serve(m) ==
    /\ m \in net
    /\ net' = net \ {m}
    /\ \/ PostTestSite(m)
       \/ PostNewSite(m)
       \/ PostScan(m)
       \/ GetTestSite(m)
       \/ GetScan(m)
       \/ GetLatest(m)

\* What a failed request may have written: a website before its pages.
PartOf(m) ==
    LET site == IF CallOf(m) = "postNewSite" THEN m ELSE TestSite
    IN  \/ UNCHANGED <<websites, pages, ofScans>>
        \/ /\ CallOf(m) \in {"postTestSite", "postNewSite"}
           /\ websites' = websites \cup {site}
           /\ pages' \in {pages, pages \cup {site}}
           /\ UNCHANGED ofScans
        \/ /\ CallOf(m) = "postScan"
           /\ WriteScan(m)
           /\ recent' = recent \cup {m}
           /\ UNCHANGED <<websites, pages>>

\* The service answers with a status of 500 or more, which the client does not throw and
\* no test expects.
ServeFails(m) ==
    /\ m \in net
    /\ Fault
    /\ net' = net \ {m}
    /\ PartOf(m)
    /\ orphans' = orphans \cup Lasting({m})
    /\ IF Waiting(m)
       THEN Give(m.caller, "fail") /\ Fail(m.caller)
       ELSE UNCHANGED <<verdict, troubled>>
    /\ UNCHANGED <<runner, instances, at, cleanup, refused, newSite, scanId, breaks, killed>>

\* updateWebsiteScan(): the scanner works on a scan, one of an earlier run perhaps.
UpdateScan(scan) ==
    /\ scan \in scans
    /\ Stamp(scan)
    /\ recent' = recent \cup {scan}
    /\ UNCHANGED <<runner, instances, tests, net, websites, pages, scans, faults, history>>

\* A request that nobody waits for never gets to the service.
Lose(m) ==
    /\ m \in net
    /\ ~Waiting(m)
    /\ net' = net \ {m}
    /\ UNCHANGED <<runner, instances, tests, websites, pages, ofScans, faults, history>>

-------------------------------------------------------------------------------
(***************************************************************************)
(* The rest of the tests                                                   *)
(***************************************************************************)
\* What the refusal tests of a phase find, if nothing troubles them.
RefusalVerdict ==
    [p \in DOMAIN Refusals |->
        IF \A test \in Refusals[p] : IsRefused(test) THEN "pass" ELSE "fail"]

\* Refusal tests change nothing, so those of a phase are one step.
RunRefusals(p) ==
    /\ phase = p
    /\ refused[p] = "none"
    /\ \/ /\ refused' = [refused EXCEPT ![p] = RefusalVerdict[p]]
          /\ UNCHANGED <<faults, troubled>>
       \/ Fault /\ refused' = [refused EXCEPT ![p] = "fail"] /\ Fail(p)
    /\ UNCHANGED <<runner, instances, at, cleanup, verdict, newSite, scanId, service, breaks,
                   killed, orphans>>

\* readTestWebsite(): the download answers with an error, or throws one.
ReadFails == instances["blob"] = "made" /\ instances["webClient"] = "none" /\ Fault

\* setUpTestScenario() throws: a client is missing, or the test website.
SetUpFails ==
    /\ phase = "setUp"
    /\ verdict["setUp"] = "none"
    /\ \/ "rejected" \in {instances["blob"], instances["webClient"]} /\ UNCHANGED faults
       \/ ReadFails
    /\ Give("setUp", "fail")
    /\ Fail("setUp")
    /\ UNCHANGED <<runner, instances, at, cleanup, refused, newSite, scanId, service, breaks,
                   killed, orphans>>

\* Mutant: the website goes first, and its pages are forgotten with it.
DeleteSiteFirst ==
    /\ cleanup = "pages"
    /\ instances["cosmos"] = "made"
    /\ websites' = websites \ {newSite}
    /\ cleanup' = "website"
    /\ UNCHANGED <<runner, instances, at, verdict, refused, newSite, scanId, net, pages, ofScans,
                   faults, history>>

\* deletePage(), for all pages at the same time.
DeletePages ==
    /\ cleanup = "pages"
    /\ instances["cosmos"] = "made"
    /\ pages' = pages \ {newSite}
    /\ cleanup' = "website"
    /\ UNCHANGED <<runner, instances, at, verdict, refused, newSite, scanId, net, websites,
                   ofScans, faults, history>>

DeleteWebsite ==
    /\ cleanup = "website"
    /\ websites' = websites \ {newSite}
    /\ cleanup' = "none"
    /\ Give("postNewWebsite", "pass")
    /\ UNCHANGED <<runner, instances, at, refused, newSite, scanId, net, pages, ofScans, faults,
                   history>>

\* deleteItem() throws, perhaps after it took effect, and is not tried again.
CleanupFails ==
    /\ cleanup # "none"
    /\ \/ instances["cosmos"] = "rejected" /\ UNCHANGED <<faults, websites, pages>>
       \/ /\ instances["cosmos"] = "made"
          /\ Fault
          /\ IF cleanup = "pages"
             THEN pages' \in {pages, pages \ {newSite}} /\ UNCHANGED websites
             ELSE websites' \in {websites, websites \ {newSite}} /\ UNCHANGED pages
    /\ cleanup' = "none"
    /\ Give("postNewWebsite", "fail")
    /\ Fail("postNewWebsite")
    /\ orphans' = orphans \cup {newSite}
    /\ UNCHANGED <<runner, instances, at, refused, newSite, scanId, net, ofScans, breaks, killed>>

-------------------------------------------------------------------------------
(***************************************************************************)
(* The run                                                                 *)
(***************************************************************************)
Goto(p) == phase' = p /\ UNCHANGED <<run, finalized>>

Report(result) == availability' = result

\* Mutant: an error of a test is not caught, and the phase waits for ever.
SettledIfPassed(p) ==
    /\ \A c \in Phases[p] : verdict[c] = "pass"
    /\ p \in DOMAIN Refusals => refused[p] = "pass"

\* runTestPhase(): a phase awaits its tests, whether they pass or fail.
Settled(p) ==
    /\ \A c \in Phases[p] : verdict[c] # "none"
    /\ p \in DOMAIN Refusals => refused[p] # "none"

EndSetUp ==
    /\ phase = "setUp" /\ verdict["setUp"] # "none"
    /\ \/ verdict["setUp"] = "pass" /\ Goto("beforeScan") /\ UNCHANGED availability
       \/ verdict["setUp"] = "fail" /\ Goto("finalize") /\ Report("failure")
    /\ UNCHANGED <<instances, tests, service, faults, history>>

EndBeforeScan ==
    /\ phase = "beforeScan" /\ Settled("beforeScan")
    /\ Goto("submit")
    /\ UNCHANGED <<availability, instances, tests, service, faults, history>>

\* trySubmitScan(): an error leaves the scenario, and with it the run.
EndSubmit ==
    /\ phase = "submit"
    /\ \/ verdict["submitTestScan"] = "pass" /\ Goto("afterScan") /\ UNCHANGED availability
       \/ verdict["submitTestScan"] = "fail" /\ Goto("finalize") /\ Report("failure")
       \/ verdict["submitTestScan"] = "thrown" /\ Goto("idle") /\ UNCHANGED availability
    /\ UNCHANGED <<instances, tests, service, faults, history>>

\* The scenario succeeds whatever the tests have found.
EndAfterScan ==
    /\ phase = "afterScan" /\ Settled("afterScan")
    /\ Goto("finalize")
    /\ Report("success")
    /\ UNCHANGED <<instances, tests, service, faults, history>>

\* finalizeTestRun(): even the finalizer, which calls nobody, needs the client.
Finalize ==
    /\ phase = "finalize"
    /\ instances["webClient"] # "none"
    /\ finalized' = (instances["webClient"] = "made")
    /\ phase' = "idle"
    /\ UNCHANGED <<run, availability, instances, tests, service, faults, history>>

\* The job exceeds activeDeadlineSeconds, or its node goes down.
Kill ==
    /\ phase # "idle"
    /\ Fault
    /\ Goto("idle")
    /\ killed' = killed \cup {run}
    /\ net' = Lasting(net)
    /\ orphans' = IF cleanup = "none" THEN orphans ELSE orphans \cup {newSite}
    /\ cleanup' = "none"
    /\ UNCHANGED <<availability, instances, at, verdict, refused, newSite, scanId, websites, pages,
                   ofScans, breaks, troubled>>

-------------------------------------------------------------------------------
Proceed ==
    \/ \E i \in DOMAIN instances : CreateInstance(i)
    \/ \E p \in DOMAIN Refusals : RunRefusals(p)
    \/ SetUpFails
    \/ DeletePages \/ DeleteWebsite \/ CleanupFails
    \/ EndSetUp \/ EndBeforeScan \/ EndSubmit \/ EndAfterScan
    \/ Finalize

\* The request of c is served or refused, or its connection breaks.
Settle(c) == Serve(Request(c)) \/ ServeFails(Request(c)) \/ Break(c)

Next ==
    \/ StartRun
    \/ \E c \in Callers : Send(c) \/ Break(c)
    \/ \E m \in net : Serve(m) \/ ServeFails(m) \/ Lose(m)
    \/ \E scan \in scans : UpdateScan(scan)
    \/ Proceed
    \/ Kill

Spec == Init /\ [][Next]_vars

\* A run goes on: timers and promises do, and its calls settle - the service answers
\* within the limits of its host, or the connection breaks. No fault has to happen.
Fairness == WF_vars(Proceed \/ \E c \in Callers : Send(c) \/ Settle(c))

FairSpec == Spec /\ Fairness

-------------------------------------------------------------------------------
(***************************************************************************)
(* Properties                                                              *)
(***************************************************************************)
Verdicts == {"none", "pass", "fail"}

TypeOK ==
    /\ run \in 0 .. MaxRuns
    /\ phase \in DOMAIN Phases \cup {"idle", "finalize"}
    /\ instances \in [{"blob", "webClient", "cosmos"} -> {"none", "made", "rejected"}]
    /\ at \in [Callers -> [call : 1 .. 2, try : 1 .. MaxTries, sent : BOOLEAN]]
    /\ cleanup \in {"none", "pages", "website"}
    /\ verdict \in [Callers -> Verdicts \cup {"thrown"}]
    /\ refused \in [DOMAIN Refusals -> Verdicts]
    /\ newSite \in Requests \cup {NoRequest}
    /\ scanId \in Requests \cup {NoRequest}
    /\ availability \in {"none", "success", "failure"}
    /\ finalized \in BOOLEAN
    /\ net \subseteq Requests
    /\ websites \subseteq Requests \cup {TestSite}
    /\ pages \subseteq Requests \cup {TestSite}
    /\ scans \subseteq Requests
    /\ newest \subseteq scans
    /\ recent \subseteq scans
    /\ faults \in 0 .. MaxFaults
    /\ breaks \in [Callers -> 0 .. MaxTries]
    /\ troubled \subseteq Callers \cup DOMAIN Refusals \cup DOMAIN NoInstances
    /\ killed \subseteq Runs
    /\ orphans \subseteq Requests

\* Another scan was written or updated in the second in which that of the run was
\* written, or later. One of the same run is one that nobody was told of.
Overtaken == \E s \in recent \ {scanId} : s.run = run => s \in orphans

\* A test fails only if its own calls met with a fault that the retries do not make up
\* for, or (getLatestScan) if another scan got the time stamp of that of the run, or a
\* later one: this false alarm needs no fault, an update of an earlier scan is enough.
\* And a run that was not killed stays without the finalizer's event only if the client
\* could not be made or the scan could not be submitted in all tries.
FailureHasCause ==
    /\ \A c \in Callers :
           verdict[c] \in {"fail", "thrown"} =>
               c \in troubled \/ (c = "getLatestScan" /\ Overtaken)
    /\ \A p \in DOMAIN Refusals : refused[p] = "fail" => p \in troubled
    /\ availability = "failure" => troubled \cap {"setUp", "submitTestScan"} # {}
    /\ phase = "idle" /\ run \notin killed \cup {0} /\ ~finalized =>
           troubled \cap {"webClient", "submitTestScan"} # {}

\* What the tests create is cleaned up: a website or a page other than the test website
\* is about to be deleted by the test that created it, or nobody was left to do so - its
\* creation was reported to nobody, its run was killed, or its deletion failed. The
\* comment of postNewWebsite (post-website-test-group.ts:50) makes no such exceptions.
LeftoverHasCause ==
    \A site \in (websites \cup pages) \ {TestSite} :
        site \in orphans \/ (phase = "beforeScan" /\ cleanup # "none" /\ site = newSite)

\* A client of the web API that could not be made when the tests were set up is not made
\* later: the run fails at its setup, and even its end is not reported.
RejectionSilencesRun ==
    "webClient" \in troubled =>
        /\ ~finalized
        /\ \A c \in Callers \ {"setUp"} : verdict[c] = "none"

\* A run comes to its end.
EveryRunEnds == phase # "idle" ~> phase = "idle"
=============================================================================
