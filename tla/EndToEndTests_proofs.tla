------------------------ MODULE EndToEndTests_proofs ------------------------
(***************************************************************************)
(* Proofs about EndToEndTests. What the tests promise about failures and   *)
(* leftovers holds only together with what makes up its causes: a call     *)
(* that was tried again broke each time before; while the client of the    *)
(* web API is missing nothing is called; a phase starts when those before  *)
(* it are over, with the test website in place; the latest scans were      *)
(* written or updated no earlier than that of the run, and those of the    *)
(* run itself were reported to nobody, but for the one it submitted; and   *)
(* the website to delete is one whose request is over, so that nothing     *)
(* brings it back. From this invariant, every answer that a waiting test   *)
(* can get passes, but for the latest scan.                                *)
(***************************************************************************)
EXTENDS EndToEndTests, TLAPS

\* A caller is at a call of its script, and so was whoever sent a request.
CallsInScript ==
    /\ \A c \in Callers : at[c].call <= Len(Script[c])
    /\ \A m \in net : m.call <= Len(Script[m.caller])

\* Each try of a call but the present one broke, until a test has its verdict.
BreaksCounted == \A c \in Callers : verdict[c] = "none" => breaks[c] = at[c].try - 1

\* Without the client of the web API there is no call, and nothing that calls bring.
Untouched ==
    /\ \A c \in Callers \ {"setUp"} : verdict[c] = "none"
    /\ verdict["setUp"] # "pass"
    /\ cleanup = "none"
    /\ ~finalized

InstancesSound ==
    /\ \A i \in DOMAIN NoInstances : instances[i] = "rejected" => i \in troubled
    /\ "webClient" \in troubled => instances["webClient"] = "rejected"
    /\ instances["webClient"] # "made" => Untouched

\* The tests of a phase start when those of the phases before it are over. Once the setup
\* has passed, the test website is there with its pages, and stays.
PhasesInOrder ==
    /\ phase # "idle" => run # 0
    /\ phase \in {"beforeScan", "submit", "afterScan"} => verdict["setUp"] = "pass"
    /\ verdict["setUp"] = "pass" => TestSite \in websites \cap pages
    /\ phase \in {"setUp", "beforeScan"} => verdict["submitTestScan"] = "none"
    /\ phase = "afterScan" => verdict["submitTestScan"] = "pass"
    /\ phase \in {"setUp", "beforeScan", "submit"} =>
           verdict["getScanWithId"] = "none" /\ verdict["getLatestScan"] = "none"

\* The latest scans were written or updated in the second in which that of the run was
\* written, or later. The other scans of the run were reported to nobody.
ScansSound ==
    /\ newest \subseteq recent
    /\ scans # {} => newest # {}
    /\ verdict["submitTestScan"] = "pass" => scanId \in scans
    /\ \A m \in net \cup scans : m.run <= run
    /\ \A s \in scans :
           s.run = run => s \in orphans \/ (verdict["submitTestScan"] = "pass" /\ s = scanId)

\* The website to delete is the answer of a request that is served and over: nobody can
\* create it again, and its pages are gone once they are deleted.
CleanupSound ==
    /\ cleanup # "none" =>
           /\ phase = "beforeScan"
           /\ verdict["postNewWebsite"] = "none"
           /\ newSite \in Requests \ net
           /\ newSite.caller = "postNewWebsite"
    /\ cleanup = "website" => newSite \notin pages

Support ==
    /\ CallsInScript /\ BreaksCounted /\ InstancesSound /\ PhasesInOrder
    /\ ScansSound /\ CleanupSound

IInv == TypeOK /\ Support /\ FailureHasCause /\ LeftoverHasCause

-------------------------------------------------------------------------------
(***************************************************************************)
(* The scripts and the phases, spelled out                                 *)
(***************************************************************************)
LEMMA Names ==
    /\ Callers = {"setUp", "getWebsiteSucceeds", "postNewWebsite", "postExistingWebsite",
                  "submitTestScan", "getScanWithId", "getLatestScan"}
    /\ DOMAIN Refusals = {"beforeScan", "afterScan"}
    /\ DOMAIN Phases = {"setUp", "beforeScan", "submit", "afterScan"}
    /\ DOMAIN NoInstances = {"blob", "webClient", "cosmos"}
  BY DEF Callers, Script, Refusals, Phases, NoInstances

LEMMA Casts ==
    /\ Phases["setUp"] = {"setUp"}
    /\ Phases["beforeScan"] = {"getWebsiteSucceeds", "postNewWebsite", "postExistingWebsite"}
    /\ Phases["submit"] = {"submitTestScan"}
    /\ Phases["afterScan"] = {"getScanWithId", "getLatestScan"}
  BY DEF Phases

LEMMA Lengths ==
    /\ \A c \in Callers : Len(Script[c]) \in 1 .. 2
    /\ \A c \in Callers \ {"postNewWebsite", "postExistingWebsite"} : Len(Script[c]) = 1
    /\ Len(Script["postNewWebsite"]) = 2 /\ Len(Script["postExistingWebsite"]) = 2
  <1>1. /\ Len(Script["postNewWebsite"]) = 2 /\ Len(Script["postExistingWebsite"]) = 2
    BY DEF Script, PostNewWebsite, PostExistingWebsite
  <1>2. ASSUME NEW c \in Callers \ {"postNewWebsite", "postExistingWebsite"}
        PROVE  Len(Script[c]) = 1
    BY Names DEF Script, SetUp, GetWebsiteSucceeds, SubmitTestScan, GetScanWithId,
       GetLatestScan
  <1>. QED
    BY <1>1, <1>2

LEMMA Calls ==
    /\ Script["setUp"][1] = Expect("postTestSite", SuccessCodes)
    /\ Script["getWebsiteSucceeds"][1] = Expect("getTestSite", EnsuredCodes)
    /\ Script["postNewWebsite"][1] = Expect("getTestSite", EnsuredCodes)
    /\ Script["postNewWebsite"][2] = Expect("postNewSite", EnsuredCodes)
    /\ Script["postExistingWebsite"][1] = Expect("getTestSite", EnsuredCodes)
    /\ Script["postExistingWebsite"][2] = Expect("postTestSite", {200})
    /\ Script["submitTestScan"][1] = Expect("postScan", SuccessCodes)
    /\ Script["getScanWithId"][1] = ExpectOwnScan("getScan", EnsuredCodes)
    /\ Script["getLatestScan"][1] = ExpectOwnScan("getLatestScan", EnsuredCodes)
  BY DEF Script, SetUp, GetWebsiteSucceeds, PostNewWebsite, PostExistingWebsite,
     SubmitTestScan, GetScanWithId, GetLatestScan

LEMMA SomeCall ==
    ASSUME NEW c \in Callers
    PROVE  Len(Script[c]) \in Nat /\ 1 <= Len(Script[c])
  <1>1. Len(Script[c]) \in 1 .. 2
    BY Lengths
  <1>. QED
    BY <1>1

\* All tests but two consist of one call.
LEMMA SingleCalls ==
    ASSUME NEW m \in Requests, m.call <= Len(Script[m.caller])
    PROVE  m.caller \in {"postNewWebsite", "postExistingWebsite"}
           \/ (m.call = 1 /\ Len(Script[m.caller]) = 1)
  <1>1. m.caller \in Callers /\ m.call \in 1 .. 2
    BY DEF Requests
  <1>2. SUFFICES ASSUME Len(Script[m.caller]) = 1 PROVE m.call = 1
    BY <1>1, Lengths
  <1>3. m.call <= 1
    BY <1>2
  <1>. QED
    BY <1>1, <1>3

\* Which request asks for what.
LEMMA WhoCalls ==
    ASSUME NEW m \in Requests, m.call <= Len(Script[m.caller])
    PROVE  /\ CallOf(m) = "postTestSite" <=>
                  m.caller = "setUp" \/ (m.caller = "postExistingWebsite" /\ m.call = 2)
           /\ CallOf(m) = "postNewSite" <=> m.caller = "postNewWebsite" /\ m.call = 2
           /\ CallOf(m) = "getTestSite" <=>
                  \/ m.caller = "getWebsiteSucceeds"
                  \/ m.caller \in {"postNewWebsite", "postExistingWebsite"} /\ m.call = 1
           /\ CallOf(m) = "postScan" <=> m.caller = "submitTestScan"
           /\ CallOf(m) = "getScan" <=> m.caller = "getScanWithId"
           /\ CallOf(m) = "getLatestScan" <=> m.caller = "getLatestScan"
  <1>1. m.caller \in Callers /\ m.call \in 1 .. 2
    BY DEF Requests
  <1>2. m.call = 1 \/ (m.caller \in {"postNewWebsite", "postExistingWebsite"} /\ m.call = 2)
    BY <1>1, SingleCalls
  <1>3. CASE m.caller = "setUp"
    BY <1>2, <1>3, Calls DEF CallOf, Expect
  <1>4. CASE m.caller = "getWebsiteSucceeds"
    BY <1>2, <1>4, Calls DEF CallOf, Expect
  <1>5. CASE m.caller = "postNewWebsite"
    BY <1>2, <1>5, Calls DEF CallOf, Expect
  <1>6. CASE m.caller = "postExistingWebsite"
    BY <1>2, <1>6, Calls DEF CallOf, Expect
  <1>7. CASE m.caller = "submitTestScan"
    BY <1>2, <1>7, Calls DEF CallOf, Expect
  <1>8. CASE m.caller \in {"getScanWithId", "getLatestScan"}
    BY <1>2, <1>8, Calls DEF CallOf, ExpectOwnScan
  <1>. QED
    BY <1>1, <1>3, <1>4, <1>5, <1>6, <1>7, <1>8, Names

LEMMA Bounds ==
    /\ MaxRuns \in Nat /\ MaxTries \in Nat /\ MaxTries >= 1 /\ MaxFaults \in Nat
    /\ TestSite \notin Requests
  BY BoundsAssumption, TestSiteAssumption

LEMMA RequestFields ==
    ASSUME NEW m \in Requests
    PROVE  /\ m.run \in Runs /\ m.caller \in Callers
           /\ m.call \in 1 .. 2 /\ m.try \in 1 .. MaxTries
  BY DEF Requests

-------------------------------------------------------------------------------
(***************************************************************************)
(* The refusal tests pass, if nothing troubles them: the flaw of a request *)
(* gives the answer that they expect.                                      *)
(***************************************************************************)
LEMMA FirstFlaw ==
    ASSUME NEW request, NEW k \in DOMAIN Checks[request.api],
           DOMAIN Checks[request.api] \subseteq Nat,
           Checks[request.api][k].flaw \in request.flaws,
           \A j \in DOMAIN Checks[request.api] :
               Checks[request.api][j].flaw \in request.flaws => k <= j
    PROVE  Answer(request) = Checks[request.api][k].response
  <1>. DEFINE checks == Checks[request.api]
              failing == {i \in DOMAIN checks : checks[i].flaw \in request.flaws}
              first == CHOOSE i \in failing : \A j \in failing : i <= j
  <1>1. k \in failing /\ \A j \in failing : k <= j
    OBVIOUS
  <1>2. first \in failing /\ \A j \in failing : first <= j
    BY <1>1
  <1>3. first = k
    BY <1>1, <1>2
  <1>. QED
    BY <1>1, <1>3 DEF Answer

LEMMA FourElements ==
    ASSUME NEW S, NEW a \in S, NEW b \in S, NEW c \in S, NEW d \in S, NEW u \in Seq(S),
           Len(u) = 4, u[1] = a, u[2] = b, u[3] = c, u[4] = d
    PROVE  u = <<a, b, c, d>>
  OBVIOUS

LEMMA Joined ==
    ASSUME NEW S, NEW s \in Seq(S), NEW t \in Seq(S)
    PROVE  /\ s \o t \in Seq(S)
           /\ Len(s \o t) = Len(s) + Len(t)
           /\ \A i \in 1 .. Len(s) : (s \o t)[i] = s[i]
           /\ \A i \in 1 .. Len(t) : (s \o t)[Len(s) + i] = t[i]
  OBVIOUS

LEMMA Join211 ==
    ASSUME NEW a, NEW b, NEW c, NEW d
    PROVE  (<<a, b>> \o <<c>>) \o <<d>> = <<a, b, c, d>>
  <1>. DEFINE S == {a, b, c, d}
              s == <<a, b>> \o <<c>>
              t == <<d>>
              u == s \o t
  <1>1. s \in Seq(S) /\ t \in Seq(S)
    OBVIOUS
  <1>2. a \in S /\ b \in S /\ c \in S /\ d \in S
    OBVIOUS
  <1>3. Len(s) = 3 /\ s[1] = a /\ s[2] = b /\ s[3] = c
    <2>1. ASSUME NEW v, v = <<a, b>> \o <<c>>
          PROVE  Len(v) = 3 /\ v[1] = a /\ v[2] = b /\ v[3] = c
      BY <2>1
    <2>. QED
      BY <2>1
  <1>4. Len(t) = 1 /\ t[1] = d
    OBVIOUS
  <1>. HIDE DEF S, s, t
  <1>5. u \in Seq(S)
    BY <1>1, Joined
  <1>6. /\ Len(u) = Len(s) + Len(t)
        /\ \A i \in 1 .. Len(s) : u[i] = s[i]
        /\ \A i \in 1 .. Len(t) : u[Len(s) + i] = t[i]
    BY <1>1, Joined
  <1>. HIDE DEF u
  <1>7. Len(u) = 4 /\ u[1] = a /\ u[2] = b /\ u[3] = c /\ u[4] = d
    BY <1>1, <1>3, <1>4, <1>5, <1>6
  <1>8. u = <<a, b, c, d>>
    BY <1>2, <1>5, <1>7, FourElements
  <1>. QED
    BY <1>8 DEF u, s, t

LEMMA Join231 ==
    ASSUME NEW a, NEW b, NEW c, NEW d, NEW e, NEW f
    PROVE  (<<a, b>> \o <<c, d, e>>) \o <<f>> = <<a, b, c, d, e, f>>
  <1>. DEFINE S == {a, b, c, d, e, f}
  <1>1. ASSUME NEW u, u = (<<a, b>> \o <<c, d, e>>) \o <<f>>
        PROVE  u = <<a, b, c, d, e, f>>
    <2>1. u \in Seq(S) /\ Len(u) = 6
      BY <1>1
    <2>2. u[1] = a /\ u[2] = b /\ u[3] = c /\ u[4] = d /\ u[5] = e /\ u[6] = f
      BY <1>1
    <2>. QED
      BY <2>1, <2>2
  <1>. QED
    BY <1>1

LEMMA Join243 ==
    ASSUME NEW a, NEW b, NEW c, NEW d, NEW e, NEW f, NEW g, NEW h, NEW i
    PROVE  (<<a, b>> \o <<c, d, e, f>>) \o <<g, h, i>> = <<a, b, c, d, e, f, g, h, i>>
  <1>. DEFINE S == {a, b, c, d, e, f, g, h, i}
  <1>1. ASSUME NEW u, u = (<<a, b>> \o <<c, d, e, f>>) \o <<g, h, i>>
        PROVE  u = <<a, b, c, d, e, f, g, h, i>>
    <2>1. u \in Seq(S) /\ Len(u) = 9
      BY <1>1
    <2>2. /\ u[1] = a /\ u[2] = b /\ u[3] = c /\ u[4] = d /\ u[5] = e /\ u[6] = f
             /\ u[7] = g /\ u[8] = h /\ u[9] = i
      BY <1>1
    <2>. QED
      BY <2>1, <2>2
  <1>. QED
    BY <1>1

LEMMA Join2451 ==
    ASSUME NEW a, NEW b, NEW c, NEW d, NEW e, NEW f,
           NEW g, NEW h, NEW i, NEW j, NEW k, NEW l
    PROVE  ((<<a, b>> \o <<c, d, e, f>>) \o <<g, h, i, j, k>>) \o <<l>>
           = <<a, b, c, d, e, f, g, h, i, j, k, l>>
  <1>. DEFINE S == {a, b, c, d, e, f, g, h, i, j, k, l}
  <1>1. ASSUME NEW u, u = ((<<a, b>> \o <<c, d, e, f>>) \o <<g, h, i, j, k>>) \o <<l>>
        PROVE  u = <<a, b, c, d, e, f, g, h, i, j, k, l>>
    <2>1. u \in Seq(S) /\ Len(u) = 12
      BY <1>1
    <2>2. /\ u[1] = a /\ u[2] = b /\ u[3] = c /\ u[4] = d /\ u[5] = e /\ u[6] = f
             /\ u[7] = g /\ u[8] = h /\ u[9] = i /\ u[10] = j /\ u[11] = k /\ u[12] = l
      BY <1>1
    <2>. QED
      BY <2>1, <2>2
  <1>. QED
    BY <1>1

\* What each operation checks for, in order.
LEMMA ChecksOfGetWebsite ==
    Checks["getWebsite"] =
           << Check("noVersion", "missingApiVersionQueryParameter"),
              Check("otherVersion", "unsupportedApiVersion"),
              Check("badId", "invalidResourceId"),
              Check("unknownId", "resourceNotFound") >>
  BY Join211 DEF Checks, GetWebsiteChecks, NotFoundCheck, ApiVersionChecks

LEMMA ChecksOfGetWebsiteScan ==
    Checks["getWebsiteScan"] =
           << Check("noVersion", "missingApiVersionQueryParameter"),
              Check("otherVersion", "unsupportedApiVersion"),
              Check("badId", "invalidResourceId"),
              Check("badScanId", "invalidResourceId"),
              Check("badScanType", "invalidScanType"),
              Check("unknownId", "resourceNotFound") >>
  BY Join231 DEF Checks, GetWebsiteScanChecks, NotFoundCheck, ApiVersionChecks

LEMMA ChecksOfPostWebsite ==
    Checks["postWebsite"] =
           << Check("noVersion", "missingApiVersionQueryParameter"),
              Check("otherVersion", "unsupportedApiVersion"),
              Check("notJson", "invalidJsonDocument"),
              [flaw |-> "empty", response |-> NoContent],
              Check("noContentType", "missingContentTypeHeader"),
              Check("otherContentType", "unsupportedContentType"),
              Check("malformed", "malformedRequest"),
              Check("pages", "malformedRequest"),
              Check("badId", "invalidResourceId") >>
  BY Join243 DEF Checks, PostWebsiteChecks, PostChecks, ApiVersionChecks,
     ContentTypeChecks

LEMMA ChecksOfPostWebsiteScan ==
    Checks["postWebsiteScan"] =
           << Check("noVersion", "missingApiVersionQueryParameter"),
              Check("otherVersion", "unsupportedApiVersion"),
              Check("notJson", "invalidJsonDocument"),
              [flaw |-> "empty", response |-> NoContent],
              Check("noContentType", "missingContentTypeHeader"),
              Check("otherContentType", "unsupportedContentType"),
              Check("malformed", "malformedRequest"),
              Check("noId", "malformedRequest"),
              Check("badId", "invalidResourceId"),
              Check("badFrequency", "invalidFrequencyExpression"),
              Check("badPriority", "outOfRangePriority"),
              Check("unknownId", "resourceNotFound") >>
  BY Join2451 DEF Checks, PostWebsiteScanChecks, NotFoundCheck, PostChecks, ApiVersionChecks,
     ContentTypeChecks

LEMMA GetWebsiteRefused == \A test \in GetWebsiteRefusals : IsRefused(test)
  <1>1. IsRefused(Refuses("getWebsite", {"badId"}, "invalidResourceId"))
    <2>. DEFINE request == [api |-> "getWebsite", flaws |-> {"badId"}]
    <2>1. Answer(request) = Checks[request.api][3].response
      BY FirstFlaw, ChecksOfGetWebsite DEF Check
    <2>. QED
      BY <2>1, ChecksOfGetWebsite DEF Refuses, IsRefused, Check, ErrorResponse
  <1>2. IsRefused(Refuses("getWebsite", {"unknownId"}, "resourceNotFound"))
    <2>. DEFINE request == [api |-> "getWebsite", flaws |-> {"unknownId"}]
    <2>1. Answer(request) = Checks[request.api][4].response
      BY FirstFlaw, ChecksOfGetWebsite DEF Check
    <2>. QED
      BY <2>1, ChecksOfGetWebsite DEF Refuses, IsRefused, Check, ErrorResponse
  <1>. QED
    BY <1>1, <1>2 DEF GetWebsiteRefusals

LEMMA GetWebsiteScanRefused == \A test \in GetWebsiteScanRefusals : IsRefused(test)
  <1>1. IsRefused(Refuses("getWebsiteScan", {"badId"}, "invalidResourceId"))
    <2>. DEFINE request == [api |-> "getWebsiteScan", flaws |-> {"badId"}]
    <2>1. Answer(request) = Checks[request.api][3].response
      BY FirstFlaw, ChecksOfGetWebsiteScan DEF Check
    <2>. QED
      BY <2>1, ChecksOfGetWebsiteScan DEF Refuses, IsRefused, Check, ErrorResponse
  <1>2. IsRefused(Refuses("getWebsiteScan", {"badScanId"}, "invalidResourceId"))
    <2>. DEFINE request == [api |-> "getWebsiteScan", flaws |-> {"badScanId"}]
    <2>1. Answer(request) = Checks[request.api][4].response
      BY FirstFlaw, ChecksOfGetWebsiteScan DEF Check
    <2>. QED
      BY <2>1, ChecksOfGetWebsiteScan DEF Refuses, IsRefused, Check, ErrorResponse
  <1>3. IsRefused(Refuses("getWebsiteScan", {"badScanType"}, "invalidScanType"))
    <2>. DEFINE request == [api |-> "getWebsiteScan", flaws |-> {"badScanType"}]
    <2>1. Answer(request) = Checks[request.api][5].response
      BY FirstFlaw, ChecksOfGetWebsiteScan DEF Check
    <2>. QED
      BY <2>1, ChecksOfGetWebsiteScan DEF Refuses, IsRefused, Check, ErrorResponse
  <1>. QED
    BY <1>1, <1>2, <1>3 DEF GetWebsiteScanRefusals

LEMMA PostWebsiteRefused == \A test \in PostWebsiteRefusals : IsRefused(test)
  <1>1. IsRefused(Refuses("postWebsite", {"malformed"}, "malformedRequest"))
    <2>. DEFINE request == [api |-> "postWebsite", flaws |-> {"malformed"}]
    <2>1. Answer(request) = Checks[request.api][7].response
      BY FirstFlaw, ChecksOfPostWebsite DEF Check
    <2>. QED
      BY <2>1, ChecksOfPostWebsite DEF Refuses, IsRefused, Check, ErrorResponse
  <1>2. IsRefused(Refuses("postWebsite", {"pages"}, "malformedRequest"))
    <2>. DEFINE request == [api |-> "postWebsite", flaws |-> {"pages"}]
    <2>1. Answer(request) = Checks[request.api][8].response
      BY FirstFlaw, ChecksOfPostWebsite DEF Check
    <2>. QED
      BY <2>1, ChecksOfPostWebsite DEF Refuses, IsRefused, Check, ErrorResponse
  <1>3. IsRefused(Refuses("postWebsite", {"badId"}, "invalidResourceId"))
    <2>. DEFINE request == [api |-> "postWebsite", flaws |-> {"badId"}]
    <2>1. Answer(request) = Checks[request.api][9].response
      BY FirstFlaw, ChecksOfPostWebsite DEF Check
    <2>. QED
      BY <2>1, ChecksOfPostWebsite DEF Refuses, IsRefused, Check, ErrorResponse
  <1>. QED
    BY <1>1, <1>2, <1>3 DEF PostWebsiteRefusals

LEMMA PostWebsiteScanRefused == \A test \in PostWebsiteScanRefusals : IsRefused(test)
  <1>1. IsRefused(Refuses("postWebsiteScan", {"noId"}, "malformedRequest"))
    <2>. DEFINE request == [api |-> "postWebsiteScan", flaws |-> {"noId"}]
                checks == Checks["postWebsiteScan"]
    <2>2. DOMAIN checks = 1 .. 12 /\ checks[8].flaw = "noId"
      BY ChecksOfPostWebsiteScan DEF Check
    <2>3. \A j \in 1 .. 12 : checks[j].flaw = "noId" => 8 <= j
      BY ChecksOfPostWebsiteScan DEF Check
    <2>1. Answer(request) = checks[8].response
      BY <2>2, <2>3, FirstFlaw
    <2>. QED
      BY <2>1, ChecksOfPostWebsiteScan DEF Refuses, IsRefused, Check, ErrorResponse
  <1>2. IsRefused(Refuses("postWebsiteScan", {"badId"}, "invalidResourceId"))
    <2>. DEFINE request == [api |-> "postWebsiteScan", flaws |-> {"badId"}]
    <2>1. Answer(request) = Checks[request.api][9].response
      BY FirstFlaw, ChecksOfPostWebsiteScan DEF Check
    <2>. QED
      BY <2>1, ChecksOfPostWebsiteScan DEF Refuses, IsRefused, Check, ErrorResponse
  <1>3. IsRefused(Refuses("postWebsiteScan", {"unknownId"}, "resourceNotFound"))
    <2>. DEFINE request == [api |-> "postWebsiteScan", flaws |-> {"unknownId"}]
    <2>1. Answer(request) = Checks[request.api][12].response
      BY FirstFlaw, ChecksOfPostWebsiteScan DEF Check
    <2>. QED
      BY <2>1, ChecksOfPostWebsiteScan DEF Refuses, IsRefused, Check, ErrorResponse
  <1>4. IsRefused(Refuses("postWebsiteScan", {"badFrequency"}, "invalidFrequencyExpression"))
    <2>. DEFINE request == [api |-> "postWebsiteScan", flaws |-> {"badFrequency"}]
    <2>1. Answer(request) = Checks[request.api][10].response
      BY FirstFlaw, ChecksOfPostWebsiteScan DEF Check
    <2>. QED
      BY <2>1, ChecksOfPostWebsiteScan DEF Refuses, IsRefused, Check, ErrorResponse
  <1>5. IsRefused(Refuses("postWebsiteScan", {"badPriority"}, "outOfRangePriority"))
    <2>. DEFINE request == [api |-> "postWebsiteScan", flaws |-> {"badPriority"}]
    <2>1. Answer(request) = Checks[request.api][11].response
      BY FirstFlaw, ChecksOfPostWebsiteScan DEF Check
    <2>. QED
      BY <2>1, ChecksOfPostWebsiteScan DEF Refuses, IsRefused, Check, ErrorResponse
  <1>6. PriorityFlaws(9999) = {"badPriority"} /\ PriorityFlaws(0 - 9999) = {"badPriority"}
    BY DEF PriorityFlaws, MinPriority, MaxPriority
  <1>. QED
    BY <1>1, <1>2, <1>3, <1>4, <1>5, <1>6 DEF PostWebsiteScanRefusals

\* Without a fault, the refusal tests of each phase pass. Each of their requests has one
\* flaw only, and it is the statuses that they compare.
LEMMA AllRefused == \A p \in DOMAIN Refusals : RefusalVerdict[p] = "pass"
  <1>1. \A test \in Refusals["beforeScan"] : IsRefused(test)
    BY GetWebsiteRefused, PostWebsiteRefused, PostWebsiteScanRefused DEF Refusals
  <1>2. \A test \in Refusals["afterScan"] : IsRefused(test)
    BY GetWebsiteScanRefused DEF Refusals
  <1>. QED
    BY <1>1, <1>2, Names DEF RefusalVerdict

-------------------------------------------------------------------------------
LEMMA StartValues ==
    /\ AllAtStart \in [Callers -> [call : 1 .. 2, try : 1 .. MaxTries, sent : BOOLEAN]]
    /\ \A c \in Callers : AllAtStart[c].call = 1 /\ AllAtStart[c].try = 1
    /\ NoVerdicts \in [Callers -> Verdicts \cup {"thrown"}]
    /\ \A c \in Callers : NoVerdicts[c] = "none"
    /\ NoRefusals \in [DOMAIN Refusals -> Verdicts]
    /\ \A p \in DOMAIN Refusals : NoRefusals[p] = "none"
    /\ NoBreaks \in [Callers -> 0 .. MaxTries]
    /\ \A c \in Callers : NoBreaks[c] = 0
    /\ NoInstances \in [DOMAIN NoInstances -> {"none", "made", "rejected"}]
    /\ \A i \in DOMAIN NoInstances : NoInstances[i] = "none"
  <1>1. Start \in [call : 1 .. 2, try : 1 .. MaxTries, sent : BOOLEAN]
    BY Bounds DEF Start
  <1>2. Start.call = 1 /\ Start.try = 1
    BY DEF Start
  <1>3. 0 \in 0 .. MaxTries
    BY Bounds
  <1>. QED
    BY <1>1, <1>2, <1>3
       DEF AllAtStart, NoVerdicts, NoRefusals, NoBreaks, NoInstances, Verdicts

LEMMA Initially == Init => IInv
  <1> SUFFICES ASSUME Init PROVE IInv
    OBVIOUS
  <1>. USE DEF Init
  <1>1. TypeOK
    <2>1. instances \in [{"blob", "webClient", "cosmos"} -> {"none", "made", "rejected"}]
      BY StartValues, Names
    <2>2. /\ at \in [Callers -> [call : 1 .. 2, try : 1 .. MaxTries, sent : BOOLEAN]]
          /\ verdict \in [Callers -> Verdicts \cup {"thrown"}]
          /\ refused \in [DOMAIN Refusals -> Verdicts]
          /\ breaks \in [Callers -> 0 .. MaxTries]
      BY StartValues
    <2>3. run \in 0 .. MaxRuns /\ faults \in 0 .. MaxFaults
      BY Bounds
    <2>. QED
      BY <2>1, <2>2, <2>3 DEF TypeOK, NoRequest
  <1>2. CallsInScript /\ BreaksCounted
    <2>1. \A c \in Callers : Len(Script[c]) \in Nat /\ 1 <= Len(Script[c])
      BY SomeCall
    <2>. QED
      BY <2>1, StartValues DEF CallsInScript, BreaksCounted
  <1>3. InstancesSound /\ PhasesInOrder /\ ScansSound /\ CleanupSound
    BY StartValues, Names
       DEF InstancesSound, Untouched, PhasesInOrder, ScansSound, CleanupSound
  <1>4. FailureHasCause /\ LeftoverHasCause
    BY StartValues, Names DEF FailureHasCause, LeftoverHasCause
  <1>. QED
    BY <1>1, <1>2, <1>3, <1>4 DEF IInv, Support

-------------------------------------------------------------------------------
(***************************************************************************)
(* The steps of the run                                                    *)
(***************************************************************************)
LEMMA StartRunStep == IInv /\ StartRun => IInv'
  <1> SUFFICES ASSUME IInv, StartRun PROVE IInv'
    OBVIOUS
  <1>. USE DEF StartRun, service, ofScans
  <1>1. TypeOK'
    <2>1. instances' \in [{"blob", "webClient", "cosmos"} -> {"none", "made", "rejected"}]
      BY StartValues, Names
    <2>2. /\ at' \in [Callers -> [call : 1 .. 2, try : 1 .. MaxTries, sent : BOOLEAN]]
          /\ verdict' \in [Callers -> Verdicts \cup {"thrown"}]
          /\ refused' \in [DOMAIN Refusals -> Verdicts]
          /\ breaks' \in [Callers -> 0 .. MaxTries]
      BY StartValues
    <2>3. run' \in 0 .. MaxRuns
      BY Bounds DEF IInv, TypeOK
    <2>4. phase' \in DOMAIN Phases
      BY Names
    <2>. QED
      BY <2>1, <2>2, <2>3, <2>4 DEF IInv, TypeOK, NoRequest
  <1>2. cleanup = "none"
    BY DEF IInv, Support, CleanupSound
  <1>3. (CallsInScript /\ BreaksCounted)'
    <2>1. \A c \in Callers : Len(Script[c]) \in Nat /\ 1 <= Len(Script[c])
      BY SomeCall
    <2>2. \A m \in net' : m.call <= Len(Script[m.caller])
      BY DEF IInv, Support, CallsInScript
    <2>. QED
      BY <2>1, <2>2, StartValues DEF CallsInScript, BreaksCounted
  <1>4. (InstancesSound /\ CleanupSound)'
    BY <1>2, StartValues, Names DEF InstancesSound, Untouched, CleanupSound
  <1>5. PhasesInOrder'
    <2>1. run' # 0
      BY Bounds DEF IInv, TypeOK
    <2>. QED
      BY <2>1, StartValues, Names DEF PhasesInOrder
  <1>6. FailureHasCause'
    BY StartValues, Names DEF FailureHasCause
  <1>7. LeftoverHasCause'
    BY DEF IInv, LeftoverHasCause
  <1>8. ScansSound'
    <2>1. \A m \in net \cup scans : m.run \in Nat /\ m.run <= run
      BY DEF IInv, TypeOK, Requests, Runs, Support, ScansSound
    <2>2. \A m \in net \cup scans : m.run <= run + 1 /\ m.run # run + 1
      BY <2>1 DEF IInv, TypeOK
    <2>. QED
      BY <2>2, StartValues, Names DEF IInv, Support, ScansSound
  <1>. QED
    BY <1>1, <1>3, <1>4, <1>5, <1>6, <1>7, <1>8 DEF IInv, Support

\* The steps from one phase to the next
EndsPhase == EndSetUp \/ EndBeforeScan \/ EndSubmit \/ EndAfterScan \/ Finalize

LEMMA EndsPhaseStep == IInv /\ EndsPhase => IInv'
  <1> SUFFICES ASSUME IInv, EndsPhase PROVE IInv'
    OBVIOUS
  <1>. USE DEF EndsPhase, Goto, Report, service, ofScans, tests, history
  <1>1. TypeOK'
    BY Names DEF IInv, TypeOK, EndSetUp, EndBeforeScan, EndSubmit, EndAfterScan, Finalize
  <1>2. UNCHANGED <<instances, tests, service, faults, history, run>>
    BY DEF EndSetUp, EndBeforeScan, EndSubmit, EndAfterScan, Finalize
  <1>3. cleanup = "none"
    BY Casts
       DEF IInv, Support, CleanupSound, EndSetUp, EndBeforeScan, EndSubmit, EndAfterScan,
           Finalize, Settled
  <1>4. (CallsInScript /\ BreaksCounted /\ ScansSound /\ CleanupSound)'
    BY <1>2, <1>3
       DEF IInv, Support, CallsInScript, BreaksCounted, ScansSound, CleanupSound
  <1>5. InstancesSound'
    <2>1. instances["webClient"] # "made" => ~finalized'
      BY DEF IInv, Support, InstancesSound, Untouched, EndSetUp, EndBeforeScan, EndSubmit,
             EndAfterScan, Finalize
    <2>. QED
      BY <1>2, <2>1 DEF IInv, Support, InstancesSound, Untouched
  <1>6. PhasesInOrder'
    BY <1>2
       DEF IInv, Support, PhasesInOrder, EndSetUp, EndBeforeScan, EndSubmit,
           EndAfterScan, Finalize
  <1>7. FailureHasCause'
    <2>1. /\ \A c \in Callers :
                 verdict[c] \in {"fail", "thrown"} =>
                     c \in troubled \/ (c = "getLatestScan" /\ Overtaken)
          /\ \A p \in DOMAIN Refusals : refused[p] = "fail" => p \in troubled
      BY DEF IInv, FailureHasCause
    <2>2. Overtaken' = Overtaken
      BY <1>2 DEF Overtaken
    <2>3. availability' = "failure" => troubled \cap {"setUp", "submitTestScan"} # {}
      BY <2>1, Names
         DEF IInv, FailureHasCause, EndSetUp, EndBeforeScan, EndSubmit, EndAfterScan, Finalize
    <2>4. phase' = "idle" /\ ~finalized' => troubled \cap {"webClient", "submitTestScan"} # {}
      BY <2>1, Names
         DEF IInv, TypeOK, Support, InstancesSound, NoInstances, EndSetUp, EndBeforeScan,
             EndSubmit, EndAfterScan, Finalize
    <2>. QED
      BY <1>2, <2>1, <2>2, <2>3, <2>4 DEF FailureHasCause
  <1>8. LeftoverHasCause'
    BY <1>2, <1>3 DEF IInv, LeftoverHasCause
  <1>. QED
    BY <1>1, <1>4, <1>5, <1>6, <1>7, <1>8 DEF IInv, Support

LEMMA KillStep == IInv /\ Kill => IInv'
  <1> SUFFICES ASSUME IInv, Kill PROVE IInv'
    OBVIOUS
  <1>. USE DEF Kill, Goto, Fault, Lasting, ofScans
  <1>1. TypeOK'
    BY Names, Bounds DEF IInv, TypeOK, Support, CleanupSound, PhasesInOrder, Runs
  <1>2. (CallsInScript /\ BreaksCounted /\ CleanupSound)'
    BY DEF IInv, Support, CallsInScript, BreaksCounted, CleanupSound
  <1>3. (InstancesSound /\ PhasesInOrder)'
    BY DEF IInv, Support, InstancesSound, Untouched, PhasesInOrder
  <1>4. orphans \subseteq orphans'
    OBVIOUS
  <1>5. ScansSound'
    BY <1>4 DEF IInv, Support, ScansSound
  <1>6. FailureHasCause'
    <2>1. Overtaken => Overtaken'
      BY <1>4 DEF Overtaken
    <2>. QED
      BY <2>1 DEF IInv, FailureHasCause
  <1>7. LeftoverHasCause'
    BY <1>4 DEF IInv, LeftoverHasCause
  <1>. QED
    BY <1>1, <1>2, <1>3, <1>5, <1>6, <1>7 DEF IInv, Support

-------------------------------------------------------------------------------
(***************************************************************************)
(* The instances, and the steps of tests that call nobody                  *)
(***************************************************************************)
LEMMA FaultTyped == TypeOK /\ Fault => faults' \in 0 .. MaxFaults
  BY Bounds DEF TypeOK, Fault

LEMMA CreateInstanceStep ==
    ASSUME NEW i \in DOMAIN instances, IInv, CreateInstance(i)
    PROVE  IInv'
  <1>. USE DEF CreateInstance, runner, tests, service, ofScans, Fail
  <1>1. i \in DOMAIN NoInstances /\ instances[i] = "none"
    BY Names DEF IInv, TypeOK, IsNil
  <1>2. TypeOK'
    <2>1. faults' \in 0 .. MaxFaults
      BY FaultTyped DEF IInv, TypeOK
    <2>2. instances' \in [{"blob", "webClient", "cosmos"} -> {"none", "made", "rejected"}]
      BY DEF IInv, TypeOK
    <2>3. troubled' \subseteq troubled \cup {i}
      OBVIOUS
    <2>. QED
      BY <1>1, <2>1, <2>2, <2>3 DEF IInv, TypeOK
  <1>3. troubled \subseteq troubled'
    OBVIOUS
  <1>4. InstancesSound'
    <2>1. \A j \in DOMAIN NoInstances :
             j # i => instances'[j] = instances[j] /\ (j \in troubled' <=> j \in troubled)
      BY Names DEF IInv, TypeOK
    <2>2. i = "webClient" => i \notin troubled
      BY <1>1 DEF IInv, Support, InstancesSound
    <2>3. \/ instances'[i] = "made" /\ troubled' = troubled
          \/ instances'[i] = "rejected" /\ i \in troubled'
      BY <1>1, Names DEF IInv, TypeOK
    <2>4. Untouched' = Untouched
      BY DEF Untouched
    <2>. QED
      BY <1>1, <2>1, <2>2, <2>3, <2>4, Names DEF IInv, TypeOK, Support, InstancesSound
  <1>5. (CallsInScript /\ BreaksCounted /\ PhasesInOrder /\ ScansSound /\ CleanupSound)'
    BY DEF IInv, Support, CallsInScript, BreaksCounted, PhasesInOrder, ScansSound,
           CleanupSound
  <1>6. FailureHasCause'
    BY <1>3 DEF IInv, FailureHasCause, Overtaken
  <1>7. LeftoverHasCause'
    BY DEF IInv, LeftoverHasCause
  <1>. QED
    BY <1>2, <1>4, <1>5, <1>6, <1>7 DEF IInv, Support

LEMMA RunRefusalsStep ==
    ASSUME NEW p \in DOMAIN Refusals, IInv, RunRefusals(p)
    PROVE  IInv'
  <1>. USE DEF RunRefusals, runner, service, ofScans, Fail
  <1>1. TypeOK'
    <2>1. faults' \in 0 .. MaxFaults
      BY FaultTyped DEF IInv, TypeOK
    <2>2. refused' \in [DOMAIN Refusals -> Verdicts]
      BY AllRefused DEF IInv, TypeOK, Verdicts
    <2>3. troubled' \subseteq troubled \cup {p}
      OBVIOUS
    <2>. QED
      BY <2>1, <2>2, <2>3 DEF IInv, TypeOK
  <1>2. troubled \subseteq troubled'
    OBVIOUS
  <1>3. InstancesSound'
    <2>1. Untouched' = Untouched
      BY DEF Untouched
    <2>2. "webClient" \in troubled' <=> "webClient" \in troubled
      BY Names
    <2>. QED
      BY <1>2, <2>1, <2>2 DEF IInv, Support, InstancesSound
  <1>4. (CallsInScript /\ BreaksCounted /\ PhasesInOrder /\ ScansSound /\ CleanupSound)'
    BY DEF IInv, Support, CallsInScript, BreaksCounted, PhasesInOrder, ScansSound,
           CleanupSound
  <1>5. FailureHasCause'
    <2>1. \A q \in DOMAIN Refusals : refused'[q] = "fail" => q \in troubled'
      BY <1>2, AllRefused DEF IInv, TypeOK, FailureHasCause
    <2>. QED
      BY <1>2, <2>1 DEF IInv, FailureHasCause, Overtaken
  <1>6. LeftoverHasCause'
    BY DEF IInv, LeftoverHasCause
  <1>. QED
    BY <1>1, <1>3, <1>4, <1>5, <1>6 DEF IInv, Support

LEMMA SetUpFailsStep == IInv /\ SetUpFails => IInv'
  <1> SUFFICES ASSUME IInv, SetUpFails PROVE IInv'
    OBVIOUS
  <1>. USE DEF SetUpFails, runner, service, ofScans, Fail, Give
  <1>1. TypeOK'
    <2>1. faults' \in 0 .. MaxFaults
      BY FaultTyped DEF IInv, TypeOK, ReadFails
    <2>2. verdict' \in [Callers -> Verdicts \cup {"thrown"}]
      BY DEF IInv, TypeOK, Verdicts
    <2>3. troubled' = troubled \cup {"setUp"} /\ "setUp" \in Callers
      BY Names
    <2>. QED
      BY <2>1, <2>2, <2>3 DEF IInv, TypeOK
  <1>2. troubled \subseteq troubled'
    OBVIOUS
  <1>3. /\ verdict["setUp"] = "none" /\ verdict'["setUp"] = "fail" /\ "setUp" \in troubled'
        /\ \A c \in Callers \ {"setUp"} : verdict'[c] = verdict[c]
    BY Names DEF IInv, TypeOK
  <1>4. InstancesSound'
    <2>1. "webClient" \in troubled' <=> "webClient" \in troubled
      OBVIOUS
    <2>. QED
      BY <1>2, <1>3, <2>1 DEF IInv, Support, InstancesSound, Untouched
  <1>5. (CallsInScript /\ BreaksCounted)'
    BY <1>3 DEF IInv, Support, CallsInScript, BreaksCounted
  <1>6. (PhasesInOrder /\ ScansSound /\ CleanupSound)'
    BY <1>3, Names DEF IInv, Support, PhasesInOrder, ScansSound, CleanupSound
  <1>7. FailureHasCause'
    BY <1>2, <1>3, Names DEF IInv, FailureHasCause, Overtaken
  <1>8. LeftoverHasCause'
    BY DEF IInv, LeftoverHasCause
  <1>. QED
    BY <1>1, <1>4, <1>5, <1>6, <1>7, <1>8 DEF IInv, Support

LEMMA DeletePagesStep == IInv /\ DeletePages => IInv'
  <1> SUFFICES ASSUME IInv, DeletePages PROVE IInv'
    OBVIOUS
  <1>. USE DEF DeletePages, runner, ofScans, history
  <1>1. TypeOK'
    BY DEF IInv, TypeOK
  <1>2. newSite # TestSite
    BY Bounds DEF IInv, Support, CleanupSound
  <1>3. (CallsInScript /\ BreaksCounted /\ InstancesSound /\ ScansSound)'
    BY DEF IInv, Support, CallsInScript, BreaksCounted, InstancesSound, Untouched,
           ScansSound
  <1>4. (PhasesInOrder /\ CleanupSound)'
    BY <1>2 DEF IInv, Support, PhasesInOrder, CleanupSound
  <1>5. FailureHasCause'
    BY DEF IInv, FailureHasCause, Overtaken
  <1>6. LeftoverHasCause'
    BY DEF IInv, LeftoverHasCause
  <1>. QED
    BY <1>1, <1>3, <1>4, <1>5, <1>6 DEF IInv, Support

\* postNewWebsite ends, with its website deleted or with a cause that it is not.
LEMMA EndsCleanupStep == IInv /\ (DeleteWebsite \/ CleanupFails) => IInv'
  <1> SUFFICES ASSUME IInv, DeleteWebsite \/ CleanupFails PROVE IInv'
    OBVIOUS
  <1>. USE DEF runner, ofScans, Give, Fail
  <1>1. /\ phase = "beforeScan" /\ verdict["postNewWebsite"] = "none"
        /\ newSite \in Requests /\ newSite # TestSite
        /\ cleanup = "website" => newSite \notin pages
        /\ cleanup # "none"
    BY Bounds DEF IInv, Support, CleanupSound, DeleteWebsite, CleanupFails
  <1>2. TypeOK'
    <2>1. faults' \in 0 .. MaxFaults
      BY FaultTyped DEF IInv, TypeOK, DeleteWebsite, CleanupFails
    <2>2. verdict' \in [Callers -> Verdicts \cup {"thrown"}]
      BY DEF IInv, TypeOK, DeleteWebsite, CleanupFails, Verdicts
    <2>3. troubled' \subseteq troubled \cup {"postNewWebsite"} /\ "postNewWebsite" \in Callers
      BY Names DEF DeleteWebsite, CleanupFails, history
    <2>4. websites' \subseteq websites /\ pages' \subseteq pages
      BY DEF DeleteWebsite, CleanupFails
    <2>5. orphans' \subseteq orphans \cup {newSite}
      BY DEF DeleteWebsite, CleanupFails, history
    <2>. QED
      BY <1>1, <2>1, <2>2, <2>3, <2>4, <2>5
         DEF IInv, TypeOK, DeleteWebsite, CleanupFails, history
  <1>3. /\ cleanup' = "none"
        /\ \A c \in Callers \ {"postNewWebsite"} : verdict'[c] = verdict[c]
        /\ verdict'["postNewWebsite"] \in {"pass", "fail"}
        /\ verdict'["postNewWebsite"] = "fail" => "postNewWebsite" \in troubled'
        /\ troubled' \subseteq troubled \cup {"postNewWebsite"} /\ troubled \subseteq troubled'
        /\ orphans \subseteq orphans'
        /\ UNCHANGED <<runner, instances, at, refused, newSite, scanId, net, ofScans, breaks,
                       killed>>
    BY Names DEF IInv, TypeOK, DeleteWebsite, CleanupFails, history
  <1>4. /\ websites' \cup pages' \subseteq websites \cup pages
        /\ TestSite \in websites \cap pages => TestSite \in websites' \cap pages'
        /\ newSite \in websites' \cup pages' => newSite \in orphans'
    BY <1>1 DEF DeleteWebsite, CleanupFails, history
  <1>5. instances["webClient"] = "made"
    BY <1>1 DEF IInv, Support, InstancesSound, Untouched
  <1>6. InstancesSound'
    BY <1>3, <1>5, Names DEF IInv, Support, InstancesSound, Untouched
  <1>7. (CallsInScript /\ BreaksCounted)'
    BY <1>3 DEF IInv, Support, CallsInScript, BreaksCounted
  <1>8. (PhasesInOrder /\ CleanupSound)'
    BY <1>1, <1>3, <1>4, Names DEF IInv, Support, PhasesInOrder, CleanupSound
  <1>9. ScansSound'
    BY <1>3, Names DEF IInv, Support, ScansSound
  <1>10. FailureHasCause'
    <2>1. Overtaken => Overtaken'
      BY <1>3 DEF Overtaken
    <2>2. \A c \in Callers :
              verdict'[c] \in {"fail", "thrown"} =>
                  c \in troubled' \/ (c = "getLatestScan" /\ Overtaken')
      BY <1>3, <2>1 DEF IInv, FailureHasCause
    <2>. QED
      BY <1>1, <1>3, <2>2 DEF IInv, FailureHasCause
  <1>11. LeftoverHasCause'
    BY <1>1, <1>3, <1>4 DEF IInv, LeftoverHasCause
  <1>. QED
    BY <1>2, <1>6, <1>7, <1>8, <1>9, <1>10, <1>11 DEF IInv, Support

-------------------------------------------------------------------------------
(***************************************************************************)
(* Requests and their answers                                              *)
(***************************************************************************)
LEMMA CallingFacts ==
    ASSUME IInv, NEW c \in Callers, Calling(c)
    PROVE  /\ verdict[c] = "none" /\ instances["webClient"] = "made"
           /\ Request(c) \in Requests
           /\ Request(c).caller = c /\ Request(c).call = at[c].call
           /\ Request(c).call <= Len(Script[c])
           /\ at[c].call \in 1 .. 2 /\ at[c].try \in 1 .. MaxTries
  <1>1. at[c].call \in 1 .. 2 /\ at[c].try \in 1 .. MaxTries
    BY DEF IInv, TypeOK
  <1>2. phase # "idle"
    BY Names DEF Calling
  <1>3. run \in Runs
    BY <1>2, Bounds DEF IInv, TypeOK, Support, PhasesInOrder, Runs
  <1>. QED
    BY <1>1, <1>3 DEF IInv, Support, CallsInScript, Calling, Request, Requests

LEMMA PhaseOfCall ==
    ASSUME NEW c \in Callers, Calling(c)
    PROVE  /\ c = "setUp" => phase = "setUp"
           /\ c \in {"getWebsiteSucceeds", "postNewWebsite", "postExistingWebsite"} =>
                  phase = "beforeScan"
           /\ c = "submitTestScan" => phase = "submit"
           /\ c \in {"getScanWithId", "getLatestScan"} => phase = "afterScan"
           /\ c = "postNewWebsite" => cleanup = "none"
  BY Names, Casts DEF Calling

LEMMA SendStep == ASSUME NEW c \in Callers, IInv, Send(c) PROVE IInv'
  <1>. USE DEF Send, runner, ofScans, history
  <1>1. Calling(c)
    OBVIOUS
  <1>2. at' \in [Callers -> [call : 1 .. 2, try : 1 .. MaxTries, sent : BOOLEAN]]
    BY DEF IInv, TypeOK
  <1>3. \A d \in Callers : at'[d].call = at[d].call /\ at'[d].try = at[d].try
    BY DEF IInv, TypeOK
  <1>4. TypeOK'
    BY <1>1, <1>2, CallingFacts DEF IInv, TypeOK
  <1>5. CallsInScript'
    BY <1>1, <1>3, CallingFacts DEF IInv, Support, CallsInScript
  <1>6. BreaksCounted'
    BY <1>3 DEF IInv, Support, BreaksCounted
  <1>7. (InstancesSound /\ PhasesInOrder)'
    BY DEF IInv, Support, InstancesSound, Untouched, PhasesInOrder
  <1>8. CleanupSound'
    BY <1>1, CallingFacts, PhaseOfCall DEF IInv, Support, CleanupSound
  <1>9. FailureHasCause'
    BY DEF IInv, FailureHasCause, Overtaken
  <1>10. LeftoverHasCause'
    BY DEF IInv, LeftoverHasCause
  <1>11. ScansSound'
    <2>1. Request(c).run <= run
      BY DEF Request, IInv, TypeOK
    <2>. QED
      BY <2>1 DEF IInv, Support, ScansSound
  <1>. QED
    BY <1>4, <1>5, <1>6, <1>7, <1>8, <1>9, <1>10, <1>11 DEF IInv, Support

\* A caller whose calls broke in all tries is troubled.
LEMMA BreakStep == ASSUME NEW c \in Callers, IInv, Break(c) PROVE IInv'
  <1>. USE DEF Break, runner, ofScans
  <1>1. Calling(c) /\ verdict[c] = "none" /\ breaks[c] = at[c].try - 1
    BY DEF Calling, IInv, Support, BreaksCounted
  <1>2. /\ at[c].try \in 1 .. MaxTries /\ Request(c) \in Requests
        /\ Request(c).caller = c /\ Request(c).call <= Len(Script[c])
    BY <1>1, CallingFacts
  <1>3. net' \subseteq net \cup {Request(c)}
    BY DEF Lasting
  <1>4. /\ \A d \in Callers \ {c} :
               verdict'[d] = verdict[d] /\ breaks'[d] = breaks[d] /\ at'[d] = at[d]
        /\ breaks'[c] = at[c].try
        /\ breaks' \in [Callers -> 0 .. MaxTries]
    BY <1>1, <1>2, Bounds DEF IInv, TypeOK, Give
  <1>5. \/ /\ at[c].try < MaxTries /\ verdict' = verdict
           /\ at'[c].try = at[c].try + 1
           /\ troubled' = troubled
        \/ /\ at[c].try = MaxTries /\ at' = at
           /\ verdict'[c] = (IF c = "submitTestScan" THEN "thrown" ELSE "fail")
           /\ troubled' = troubled \cup {c}
    BY <1>1, <1>2, <1>4, Bounds DEF IInv, TypeOK, Give, MoreTries
  <1>6. /\ at' \in [Callers -> [call : 1 .. 2, try : 1 .. MaxTries, sent : BOOLEAN]]
        /\ at'[c].call = at[c].call
    <2>1. CASE at' = at
      BY <2>1 DEF IInv, TypeOK
    <2>2. CASE at[c].try < MaxTries /\ at' = [at EXCEPT ![c].try = @ + 1, ![c].sent = FALSE]
      <3>1. at[c].try + 1 \in 1 .. MaxTries
        BY <1>2, <2>2, Bounds
      <3>2. ASSUME NEW n \in 1 .. MaxTries,
                   at' = [at EXCEPT ![c].try = n, ![c].sent = FALSE]
            PROVE  /\ at' \in [Callers ->
                              [call : 1 .. 2, try : 1 .. MaxTries, sent : BOOLEAN]]
                   /\ at'[c].call = at[c].call
        <4>1. at \in [Callers -> [call : 1 .. 2, try : 1 .. MaxTries, sent : BOOLEAN]]
          BY DEF IInv, TypeOK
        <4>2. at' \in [Callers -> [call : 1 .. 2, try : 1 .. MaxTries, sent : BOOLEAN]]
          BY <3>2, <4>1
        <4>3. at'[c].call = at[c].call
          BY <3>2, <4>1
        <4>. QED
          BY <4>2, <4>3
      <3>3. \A n \in 1 .. MaxTries :
               n = at[c].try + 1 => at' = [at EXCEPT ![c].try = n, ![c].sent = FALSE]
        BY <2>2 DEF IInv, TypeOK
      <3>. QED
        BY <3>1, <3>2, <3>3
    <2>. QED
      BY <2>1, <2>2 DEF MoreTries
  <1>7. TypeOK'
    <2>1. faults' \in 0 .. MaxFaults
      BY FaultTyped DEF IInv
    <2>2. verdict' \in [Callers -> Verdicts \cup {"thrown"}]
      BY DEF IInv, TypeOK, Verdicts, Give
    <2>3. troubled' \subseteq troubled \cup {c}
      BY <1>5
    <2>. QED
      BY <1>2, <1>3, <1>4, <1>6, <2>1, <2>2, <2>3 DEF IInv, TypeOK
  <1>8. CallsInScript'
    BY <1>2, <1>3, <1>4, <1>6 DEF IInv, Support, CallsInScript
  <1>9. BreaksCounted'
    BY <1>2, <1>4, <1>5 DEF IInv, Support, BreaksCounted
  <1>10. InstancesSound'
    BY <1>1, <1>4, <1>5, CallingFacts, Names DEF IInv, Support, InstancesSound, Untouched
  <1>11. PhasesInOrder'
    BY <1>1, <1>4, <1>5, PhaseOfCall, Names DEF IInv, Support, PhasesInOrder
  <1>12. ScansSound'
    <2>1. Request(c).run <= run
      BY DEF Request, IInv, TypeOK
    <2>2. verdict'["submitTestScan"] = "pass" <=> verdict["submitTestScan"] = "pass"
      BY <1>1, <1>4, <1>5, Names
    <2>. QED
      BY <1>3, <2>1, <2>2 DEF IInv, Support, ScansSound
  <1>13. CleanupSound'
    BY <1>1, <1>2, <1>3, <1>4, PhaseOfCall, Names DEF IInv, Support, CleanupSound
  <1>14. FailureHasCause'
    BY <1>4, <1>5 DEF IInv, FailureHasCause, Overtaken
  <1>15. LeftoverHasCause'
    BY DEF IInv, LeftoverHasCause
  <1>. QED
    BY <1>7, <1>8, <1>9, <1>10, <1>11, <1>12, <1>13, <1>14, <1>15 DEF IInv, Support

LEMMA LoseStep == ASSUME NEW m \in net, IInv, Lose(m) PROVE IInv'
  <1>. USE DEF Lose, runner, tests, ofScans, history
  <1>1. TypeOK'
    BY DEF IInv, TypeOK
  <1>2. (CallsInScript /\ BreaksCounted /\ InstancesSound /\ PhasesInOrder /\ ScansSound)'
    BY DEF IInv, Support, CallsInScript, BreaksCounted, InstancesSound, Untouched,
           PhasesInOrder, ScansSound
  <1>3. CleanupSound'
    BY DEF IInv, Support, CleanupSound
  <1>4. (FailureHasCause /\ LeftoverHasCause)'
    BY DEF IInv, FailureHasCause, Overtaken, LeftoverHasCause
  <1>. QED
    BY <1>1, <1>2, <1>3, <1>4 DEF IInv, Support

\* A scanner updates a scan, which gets the latest time stamp.
LEMMA UpdateScanStep == ASSUME NEW scan \in scans, IInv, UpdateScan(scan) PROVE IInv'
  <1>. USE DEF UpdateScan, Stamp, runner, tests, history
  <1>1. TypeOK'
    BY DEF IInv, TypeOK
  <1>2. (CallsInScript /\ BreaksCounted /\ InstancesSound /\ PhasesInOrder)'
    BY DEF IInv, Support, CallsInScript, BreaksCounted, InstancesSound, Untouched,
           PhasesInOrder
  <1>3. (ScansSound /\ CleanupSound)'
    BY DEF IInv, Support, ScansSound, CleanupSound
  <1>4. (FailureHasCause /\ LeftoverHasCause)'
    <2>1. Overtaken => Overtaken'
      BY DEF Overtaken
    <2>. QED
      BY <2>1 DEF IInv, FailureHasCause, LeftoverHasCause
  <1>. QED
    BY <1>1, <1>2, <1>3, <1>4 DEF IInv, Support

-------------------------------------------------------------------------------
(***************************************************************************)
(* What the service does with a request, whatever becomes of its answer    *)
(***************************************************************************)
SitesOf(m) == {TestSite} \cup {r \in {m} : CallOf(r) = "postNewSite"}

WritesScan(m) ==
    /\ CallOf(m) = "postScan"
    /\ WriteScan(m)
    /\ recent' = recent \cup {m} \/ recent' = newest'

Acts(m) ==
    /\ net' = net \ {m}
    /\ websites \subseteq websites' /\ websites' \subseteq websites \cup SitesOf(m)
    /\ pages \subseteq pages' /\ pages' \subseteq pages \cup SitesOf(m)
    /\ UNCHANGED ofScans \/ WritesScan(m)
    /\ UNCHANGED <<runner, instances, refused, killed>>

LEMMA ServeActs ==
    ASSUME NEW m \in net, Serve(m) \/ ServeFails(m)
    PROVE  Acts(m)
  <1>1. UNCHANGED <<runner, instances, refused, killed>>
    BY DEF Serve, ServeFails, PostTestSite, PostNewSite, PostScan, GetTestSite, GetScan,
           GetLatest, Reply
  <1>2. net' = net \ {m}
    BY DEF Serve, ServeFails
  <1>3. CASE Serve(m)
    BY <1>1, <1>2, <1>3
       DEF Acts, SitesOf, WritesScan, Serve, PostTestSite, PostNewSite, PostScan,
           GetTestSite, GetScan, GetLatest
  <1>4. CASE ServeFails(m)
    BY <1>1, <1>2, <1>4 DEF Acts, SitesOf, WritesScan, ServeFails, PartOf
  <1>. QED
    BY <1>3, <1>4

LEMMA RequestInNet ==
    ASSUME IInv, NEW m \in net
    PROVE  /\ m \in Requests /\ m.caller \in Callers /\ m.call \in 1 .. 2
           /\ m.call <= Len(Script[m.caller])
  BY RequestFields DEF IInv, TypeOK, Support, CallsInScript

\* What becomes of the scans of the test website.
LEMMA ScansWritten ==
    ASSUME IInv, NEW m \in net, Acts(m)
    PROVE  /\ scans \subseteq scans' /\ newest' \subseteq scans' /\ recent' \subseteq scans'
           /\ scans' \subseteq scans \cup Lasting({m})
           /\ newest' \subseteq recent'
           /\ scans' # {} => newest' # {}
           /\ \A r \in net' \cup scans' : r.run <= run
  <1>. USE DEF IInv, TypeOK, Support, ScansSound
  <1>1. net' \subseteq net /\ m.run <= run
    BY DEF Acts
  <1>2. CASE UNCHANGED ofScans
    BY <1>1, <1>2 DEF ofScans
  <1>3. CASE WritesScan(m)
    <2>1. /\ scans' = scans \cup {m} /\ newest' \in {{m}, newest \cup {m}}
          /\ recent' \in {recent \cup {m}, newest'} /\ m \in Lasting({m})
      BY <1>3 DEF WritesScan, WriteScan, Stamp, Lasting
    <2>. QED
      BY <1>1, <2>1
  <1>. QED
    BY <1>2, <1>3 DEF Acts

LEMMA ActsTyped ==
    ASSUME IInv, NEW m \in net, Acts(m)
    PROVE  /\ net' \subseteq Requests /\ scans' \subseteq Requests
           /\ newest' \subseteq scans' /\ recent' \subseteq scans'
           /\ websites' \subseteq Requests \cup {TestSite}
           /\ pages' \subseteq Requests \cup {TestSite}
           /\ UNCHANGED <<run, phase, availability, finalized, instances, refused, killed>>
           /\ \A r \in net' : r.call <= Len(Script[r.caller])
  <1>1. m \in Requests /\ SitesOf(m) \subseteq Requests \cup {TestSite}
    BY RequestInNet DEF SitesOf
  <1>2. /\ scans' \subseteq Requests
        /\ newest' \subseteq scans' /\ recent' \subseteq scans'
    BY <1>1, ScansWritten DEF IInv, TypeOK, Lasting
  <1>3. net' \subseteq Requests /\ \A r \in net' : r.call <= Len(Script[r.caller])
    BY DEF IInv, TypeOK, Acts, Support, CallsInScript
  <1>4. /\ websites' \subseteq Requests \cup {TestSite}
        /\ pages' \subseteq Requests \cup {TestSite}
    BY <1>1 DEF IInv, TypeOK, Acts
  <1>. QED
    BY <1>2, <1>3, <1>4 DEF Acts, runner

\* Nobody heard the answer, or it was an error: the document that was written is an
\* orphan, and a caller that waited has failed.
LEMMA OrphanStep ==
    ASSUME IInv, NEW m \in net, Acts(m),
           orphans \cup Lasting({m}) \subseteq orphans', orphans' \subseteq orphans \cup {m},
           recent \subseteq recent', faults' \in 0 .. MaxFaults,
           UNCHANGED <<at, breaks, cleanup, newSite, scanId>>,
           \/ UNCHANGED <<verdict, troubled>>
           \/ Waiting(m) /\ Give(m.caller, "fail") /\ Fail(m.caller)
    PROVE  IInv'
  <1>1. m \in Requests /\ m.caller \in Callers
    BY RequestInNet
  <1>2. UNCHANGED <<run, phase, availability, finalized, instances, refused, killed>>
    BY ActsTyped
  <1>3. /\ troubled \subseteq troubled' /\ troubled' \subseteq troubled \cup {m.caller}
        /\ \A c \in Callers :
               \/ verdict'[c] = verdict[c]
               \/ c = m.caller /\ Calling(c) /\ verdict'[c] = "fail" /\ c \in troubled'
        /\ verdict' \in [Callers -> Verdicts \cup {"thrown"}]
    BY <1>1 DEF Waiting, Give, Fail, IInv, TypeOK, Verdicts
  <1>4. TypeOK'
    BY <1>1, <1>2, <1>3, ActsTyped DEF IInv, TypeOK
  <1>5. CallsInScript'
    BY ActsTyped DEF IInv, Support, CallsInScript
  <1>6. BreaksCounted'
    BY <1>3 DEF IInv, Support, BreaksCounted
  <1>7. InstancesSound'
    <2>1. "webClient" \in troubled' => "webClient" \in troubled
      BY <1>1, <1>3, Names
    <2>2. Untouched /\ instances["webClient"] # "made" => Untouched'
      BY <1>2, <1>3, Names DEF Untouched, Calling
    <2>. QED
      BY <1>2, <1>3, <2>1, <2>2 DEF IInv, Support, InstancesSound
  <1>8. PhasesInOrder'
    <2>1. TestSite \in websites \cap pages => TestSite \in websites' \cap pages'
      BY DEF Acts
    <2>2. verdict'["setUp"] = "pass" <=> verdict["setUp"] = "pass"
      BY <1>3, Names DEF Calling
    <2>3. phase # "submit" => verdict'["submitTestScan"] = verdict["submitTestScan"]
      BY <1>3, PhaseOfCall, Names
    <2>4. phase # "afterScan" =>
              /\ verdict'["getScanWithId"] = verdict["getScanWithId"]
              /\ verdict'["getLatestScan"] = verdict["getLatestScan"]
      BY <1>3, PhaseOfCall, Names
    <2>. QED
      BY <1>2, <2>1, <2>2, <2>3, <2>4 DEF IInv, Support, PhasesInOrder
  <1>9. ScansSound'
    <2>1. verdict'["submitTestScan"] = "pass" <=> verdict["submitTestScan"] = "pass"
      BY <1>3, Names DEF Calling
    <2>. QED
      BY <1>2, <2>1, ScansWritten DEF IInv, Support, ScansSound
  <1>10. CleanupSound'
    <2>2. cleanup # "none" => newSite \notin SitesOf(m)
      BY <1>1, Bounds DEF IInv, Support, CleanupSound, SitesOf
    <2>3. cleanup # "none" => verdict'["postNewWebsite"] = "none"
      BY <1>3, PhaseOfCall, Names DEF IInv, Support, CleanupSound
    <2>. QED
      BY <1>2, <2>2, <2>3 DEF IInv, Support, CleanupSound, Acts
  <1>11. FailureHasCause'
    <2>1. Overtaken => Overtaken'
      BY <1>2 DEF Overtaken
    <2>. QED
      BY <1>2, <1>3, <2>1 DEF IInv, FailureHasCause
  <1>12. LeftoverHasCause'
    <2>1. SitesOf(m) \subseteq {TestSite} \cup orphans'
      BY DEF SitesOf, Lasting
    <2>. QED
      BY <1>2, <2>1 DEF IInv, LeftoverHasCause, Acts
  <1>. QED
    BY <1>4, <1>5, <1>6, <1>7, <1>8, <1>9, <1>10, <1>11, <1>12 DEF IInv, Support

LEMMA ServeFailsStep == ASSUME NEW m \in net, IInv, ServeFails(m) PROVE IInv'
  <1>1. faults' \in 0 .. MaxFaults
    BY FaultTyped DEF IInv, ServeFails
  <1>2. Lasting({m}) \subseteq {m}
    BY DEF Lasting
  <1>3. Acts(m)
    BY ServeActs
  <1>4. recent \subseteq recent'
    BY DEF ServeFails, PartOf, ofScans
  <1>. QED
    BY <1>1, <1>2, <1>3, <1>4, OrphanStep DEF ServeFails

LEMMA ServeUnheardStep ==
    ASSUME NEW m \in net, IInv, Serve(m), ~Waiting(m) PROVE IInv'
  <1>. USE DEF Serve, PostTestSite, PostNewSite, PostScan, GetTestSite, GetScan, GetLatest
  <1>1. /\ orphans' = orphans \cup {m}
        /\ UNCHANGED <<at, breaks, cleanup, verdict, newSite, scanId, faults, troubled>>
    BY DEF Reply
  <1>2. Lasting({m}) \subseteq {m}
    BY DEF Lasting
  <1>3. Acts(m)
    BY ServeActs
  <1>4. faults' \in 0 .. MaxFaults
    BY <1>1 DEF IInv, TypeOK
  <1>5. recent \subseteq recent'
    BY DEF ofScans
  <1>. QED
    BY <1>1, <1>2, <1>3, <1>4, <1>5, OrphanStep

-------------------------------------------------------------------------------
(***************************************************************************)
(* Answers that are heard. Only the latest scan can be another one than    *)
(* the test expects; every other answer is what it should be.              *)
(***************************************************************************)
IsOvertaken(m) ==
    /\ m.caller = "getLatestScan" /\ Overtaken
    /\ Give(m.caller, "fail")
    /\ UNCHANGED <<at, breaks, cleanup, newSite, scanId, websites, pages, ofScans>>

CallsNext(m) ==
    /\ m.call = 1 /\ Len(Script[m.caller]) = 2
    /\ at' = [at EXCEPT ![m.caller] = [Start EXCEPT !.call = 2]]
    /\ breaks' = [breaks EXCEPT ![m.caller] = 0]
    /\ UNCHANGED <<verdict, cleanup, newSite, scanId, websites, pages, ofScans>>

HasCreated(m) ==
    /\ m.caller = "postNewWebsite"
    /\ newSite' = m
    /\ cleanup' = "pages"
    /\ UNCHANGED <<at, breaks, verdict, scanId, ofScans>>

Passes(m) ==
    /\ m.caller # "postNewWebsite"
    /\ Give(m.caller, "pass")
    /\ websites' \subseteq websites \cup {TestSite} /\ pages' \subseteq pages \cup {TestSite}
    /\ m.caller = "setUp" => TestSite \in websites' \cap pages'
    /\ \/ m.caller = "submitTestScan" /\ scanId' = m /\ WriteScan(m)
       \/ m.caller # "submitTestScan" /\ UNCHANGED <<scanId, ofScans>>
    /\ UNCHANGED <<at, breaks, cleanup, newSite>>

Outcome(m) == IsOvertaken(m) \/ CallsNext(m) \/ HasCreated(m) \/ Passes(m)

\* What a caller that gets the expected answer does.
LEMMA ExpectedAnswer ==
    ASSUME NEW c \in Callers, NEW status, NEW body, Take(c, status, body),
           status \in Script[c][at[c].call].statuses,
           Script[c][at[c].call].own => body = scanId
    PROVE  IF at[c].call # Len(Script[c])
           THEN /\ at' = [at EXCEPT ![c] = [Start EXCEPT !.call = 2]]
                /\ breaks' = [breaks EXCEPT ![c] = 0]
                /\ UNCHANGED <<verdict, cleanup, newSite, scanId>>
           ELSE IF c = "postNewWebsite"
           THEN /\ newSite' = body /\ cleanup' = "pages"
                /\ UNCHANGED <<at, breaks, verdict, scanId>>
           ELSE /\ Give(c, "pass")
                /\ scanId' = (IF c = "submitTestScan" THEN body ELSE scanId)
                /\ UNCHANGED <<at, breaks, cleanup, newSite>>
  BY DEF Take

LEMMA WaitingFacts ==
    ASSUME IInv, NEW m \in net, Waiting(m)
    PROVE  /\ m \in Requests /\ m.caller \in Callers /\ Calling(m.caller)
           /\ at[m.caller].call = m.call
           /\ m.call \in 1 .. 2 /\ m.call <= Len(Script[m.caller])
           /\ m.caller # "setUp" => TestSite \in websites \cap pages
           /\ m.caller \in {"getScanWithId", "getLatestScan"} => scanId \in scans
  <1>1. /\ m \in Requests /\ m.caller \in Callers
        /\ m.call \in 1 .. 2 /\ m.call <= Len(Script[m.caller])
    BY RequestInNet
  <1>2. Calling(m.caller) /\ at[m.caller].call = m.call
    BY DEF Waiting, Request
  <1>3. m.caller # "setUp" => TestSite \in websites \cap pages
    BY <1>1, <1>2, PhaseOfCall, Names DEF IInv, Support, PhasesInOrder
  <1>4. m.caller \in {"getScanWithId", "getLatestScan"} => scanId \in scans
    BY <1>1, <1>2, PhaseOfCall DEF IInv, Support, PhasesInOrder, ScansSound
  <1>. QED
    BY <1>1, <1>2, <1>3, <1>4

LEMMA Codes ==
    /\ {200, 201} \subseteq SuccessCodes
    /\ {200, 201} \subseteq EnsuredCodes
  BY DEF SuccessCodes, EnsuredCodes

LEMMA Heard ==
    ASSUME IInv, NEW m \in net, Serve(m), Waiting(m)
    PROVE  Outcome(m) /\ UNCHANGED <<orphans, faults, troubled>>
  <1>. DEFINE c == m.caller
  <1>1. /\ m \in Requests /\ c \in Callers /\ at[c].call = m.call /\ m.call \in 1 .. 2
        /\ m.call <= Len(Script[c])
        /\ c # "setUp" => TestSite \in websites \cap pages
        /\ \/ c \in {"postNewWebsite", "postExistingWebsite"}
           \/ m.call = 1 /\ Len(Script[c]) = 1
    BY WaitingFacts, SingleCalls
  <1>. HIDE DEF c
  <1>2. CASE PostTestSite(m)
    <2>1. \/ c = "setUp" /\ m.call = 1
          \/ c = "postExistingWebsite" /\ m.call = 2
      BY <1>1, <1>2, WhoCalls DEF PostTestSite, c
    <2>2. /\ Take(c, IF TestSite \in pages THEN 200 ELSE 201, TestSite)
          /\ UNCHANGED <<orphans, faults, troubled>>
      BY <1>2 DEF PostTestSite, Reply, c
    <2>3. /\ (IF TestSite \in pages THEN 200 ELSE 201) \in Script[c][m.call].statuses
          /\ ~Script[c][m.call].own
      BY <1>1, <2>1, Calls, Codes DEF Expect
    <2>4. m.call = Len(Script[c])
      BY <2>1, Lengths, Names
    <2>5. Passes(m)
      BY <1>1, <1>2, <2>1, <2>2, <2>3, <2>4, ExpectedAnswer DEF Passes, PostTestSite, c
    <2>. QED
      BY <2>2, <2>5 DEF Outcome
  <1>3. CASE PostNewSite(m)
    <2>1. c = "postNewWebsite" /\ m.call = 2
      BY <1>1, <1>3, WhoCalls DEF PostNewSite, c
    <2>2. Take(c, 201, m) /\ UNCHANGED <<orphans, faults, troubled>>
      BY <1>3 DEF PostNewSite, Reply, c
    <2>3. 201 \in Script[c][m.call].statuses /\ ~Script[c][m.call].own
      BY <2>1, Calls, Codes DEF Expect
    <2>4. m.call = Len(Script[c])
      BY <2>1, Lengths, Names
    <2>5. HasCreated(m)
      BY <1>1, <1>3, <2>1, <2>2, <2>3, <2>4, ExpectedAnswer DEF HasCreated, PostNewSite, c
    <2>. QED
      BY <2>2, <2>5 DEF Outcome
  <1>4. CASE PostScan(m)
    <2>1. c = "submitTestScan" /\ m.call = 1 /\ m.call = Len(Script[c])
      BY <1>1, <1>4, WhoCalls DEF PostScan, c
    <2>2. /\ WriteScan(m) /\ Take(c, 201, m)
          /\ UNCHANGED <<orphans, faults, troubled, websites, pages>>
      BY <1>1, <1>4, <2>1 DEF PostScan, Reply, c
    <2>3. 201 \in Script[c][m.call].statuses /\ ~Script[c][m.call].own
      BY <2>1, Calls, Codes DEF Expect
    <2>4. Passes(m)
      BY <1>1, <2>1, <2>2, <2>3, ExpectedAnswer DEF Passes, c
    <2>. QED
      BY <2>2, <2>4 DEF Outcome
  <1>5. CASE GetTestSite(m)
    <2>1. \/ c = "getWebsiteSucceeds" /\ m.call = 1
          \/ c \in {"postNewWebsite", "postExistingWebsite"} /\ m.call = 1
      BY <1>1, <1>5, WhoCalls DEF GetTestSite, c
    <2>2. /\ Take(c, 200, TestSite)
          /\ UNCHANGED <<orphans, faults, troubled, websites, pages, ofScans>>
      BY <1>1, <1>5, <2>1 DEF GetTestSite, Reply, c
    <2>3. 200 \in Script[c][m.call].statuses /\ ~Script[c][m.call].own
      BY <2>1, Calls, Codes DEF Expect
    <2>4. CASE c = "getWebsiteSucceeds"
      <3>1. m.call = Len(Script[c])
        BY <2>1, <2>4, Lengths, Names
      <3>2. Passes(m)
        BY <1>1, <2>2, <2>3, <2>4, <3>1, ExpectedAnswer DEF Passes, c
      <3>. QED
        BY <2>2, <3>2 DEF Outcome
    <2>5. CASE c \in {"postNewWebsite", "postExistingWebsite"}
      <3>1. m.call # Len(Script[c]) /\ Len(Script[c]) = 2
        BY <2>1, <2>5, Lengths
      <3>2. CallsNext(m)
        BY <1>1, <2>2, <2>3, <3>1, ExpectedAnswer DEF CallsNext, c
      <3>. QED
        BY <2>2, <3>2 DEF Outcome
    <2>. QED
      BY <2>1, <2>4, <2>5
  <1>6. CASE GetScan(m)
    <2>1. c = "getScanWithId" /\ m.call = 1 /\ m.call = Len(Script[c])
      BY <1>1, <1>6, WhoCalls DEF GetScan, c
    <2>2. scanId \in scans
      BY <2>1, WaitingFacts DEF c
    <2>3. /\ Take(c, 200, scanId)
          /\ UNCHANGED <<orphans, faults, troubled, websites, pages, ofScans>>
      BY <1>6, <2>2 DEF GetScan, Reply, c
    <2>4. 200 \in Script[c][m.call].statuses
      BY <2>1, Calls, Codes DEF ExpectOwnScan
    <2>5. Passes(m)
      BY <1>1, <2>1, <2>3, <2>4, ExpectedAnswer DEF Passes, c
    <2>. QED
      BY <2>3, <2>5 DEF Outcome
  <1>7. CASE GetLatest(m)
    <2>1. c = "getLatestScan" /\ m.call = 1 /\ m.call = Len(Script[c])
      BY <1>1, <1>7, WhoCalls DEF GetLatest, c
    <2>2. scanId \in scans
      BY <2>1, WaitingFacts DEF c
    <2>3. PICK scan \in newest : Reply(m, 200, scan)
      BY <1>7, <2>2 DEF GetLatest, LatestScans
    <2>4. /\ Take(c, 200, scan)
          /\ UNCHANGED <<orphans, faults, troubled, websites, pages, ofScans>>
      BY <1>7, <2>3 DEF GetLatest, Reply, c
    <2>5. 200 \in Script[c][m.call].statuses /\ Script[c][m.call].own
      BY <2>1, Calls, Codes DEF ExpectOwnScan
    <2>6. CASE scan = scanId
      <3>1. Passes(m)
        BY <1>1, <2>1, <2>4, <2>5, <2>6, ExpectedAnswer DEF Passes, c
      <3>. QED
        BY <2>4, <3>1 DEF Outcome
    <2>7. CASE scan # scanId
      <3>1. /\ scan \in recent \ {scanId}
            /\ scan.run = run => scan \in orphans
        BY <2>3, <2>7 DEF IInv, TypeOK, Support, ScansSound
      <3>2. Overtaken
        BY <3>1 DEF Overtaken
      <3>3. Give(c, "fail") /\ UNCHANGED <<at, breaks, cleanup, newSite, scanId>>
        BY <1>1, <2>4, <2>5, <2>7 DEF Take
      <3>4. IsOvertaken(m)
        BY <2>1, <2>4, <3>2, <3>3 DEF IsOvertaken, c
      <3>. QED
        BY <2>4, <3>4 DEF Outcome
    <2>. QED
      BY <2>6, <2>7
  <1>. QED
    BY <1>2, <1>3, <1>4, <1>5, <1>6, <1>7 DEF Serve

\* The part of the invariant that no answer disturbs, and what is common to the rest.
LEMMA HeardCommon ==
    ASSUME IInv, NEW m \in net, Serve(m), Waiting(m)
    PROVE  /\ Acts(m) /\ UNCHANGED <<orphans, faults, troubled>>
           /\ UNCHANGED <<run, phase, availability, finalized, instances, refused, killed>>
           /\ m \in Requests /\ m.caller \in Callers /\ Calling(m.caller)
           /\ verdict[m.caller] = "none" /\ instances["webClient"] = "made"
           /\ phase # "idle"
           /\ InstancesSound'
  <1>1. /\ Acts(m) /\ UNCHANGED <<orphans, faults, troubled>>
        /\ UNCHANGED <<run, phase, availability, finalized, instances, refused, killed>>
    BY ServeActs, ActsTyped, Heard
  <1>2. m \in Requests /\ m.caller \in Callers /\ Calling(m.caller)
    BY WaitingFacts
  <1>3. phase # "idle" /\ verdict[m.caller] = "none" /\ instances["webClient"] = "made"
    BY <1>2, Names DEF Calling
  <1>4. InstancesSound'
    BY <1>1, <1>3 DEF IInv, Support, InstancesSound
  <1>. QED
    BY <1>1, <1>2, <1>3, <1>4

LEMMA HeardTyped ==
    ASSUME IInv, NEW m \in net, Serve(m), Waiting(m)
    PROVE  TypeOK' /\ CallsInScript' /\ BreaksCounted'
  <1>1. /\ Acts(m) /\ UNCHANGED <<orphans, faults, troubled>>
        /\ UNCHANGED <<run, phase, availability, finalized, instances, refused, killed>>
        /\ m \in Requests /\ m.caller \in Callers /\ Outcome(m)
    BY HeardCommon, Heard
  <1>2. /\ [Start EXCEPT !.call = 2] \in [call : 1 .. 2, try : 1 .. MaxTries, sent : BOOLEAN]
        /\ [Start EXCEPT !.call = 2].call = 2 /\ [Start EXCEPT !.call = 2].try = 1
    <2>1. Start \in [call : 1 .. 2, try : 1 .. MaxTries, sent : BOOLEAN]
      BY Bounds DEF Start
    <2>2. [Start EXCEPT !.call = 2] \in [call : 1 .. 2, try : 1 .. MaxTries, sent : BOOLEAN]
      BY <2>1
    <2>3. [Start EXCEPT !.call = 2].call = 2 /\ [Start EXCEPT !.call = 2].try = 1
      BY DEF Start
    <2>. QED
      BY <2>2, <2>3
  <1>3. /\ at' \in [Callers -> [call : 1 .. 2, try : 1 .. MaxTries, sent : BOOLEAN]]
        /\ breaks' \in [Callers -> 0 .. MaxTries]
        /\ \A c \in Callers :
               \/ at'[c] = at[c] /\ breaks'[c] = breaks[c]
               \/ Len(Script[c]) = 2 /\ at'[c].call = 2 /\ at'[c].try = 1 /\ breaks'[c] = 0
    <2>1. CASE CallsNext(m)
      <3>1. /\ at' \in [Callers -> [call : 1 .. 2, try : 1 .. MaxTries, sent : BOOLEAN]]
            /\ at'[m.caller] = [Start EXCEPT !.call = 2]
            /\ \A c \in Callers \ {m.caller} : at'[c] = at[c]
        BY <1>1, <1>2, <2>1 DEF CallsNext, IInv, TypeOK
      <3>2. /\ breaks' \in [Callers -> 0 .. MaxTries]
            /\ breaks'[m.caller] = 0
            /\ \A c \in Callers \ {m.caller} : breaks'[c] = breaks[c]
        BY <1>1, <2>1, Bounds DEF CallsNext, IInv, TypeOK
      <3>. QED
        BY <1>2, <2>1, <3>1, <3>2 DEF CallsNext
    <2>2. CASE UNCHANGED <<at, breaks>>
      BY <2>2 DEF IInv, TypeOK
    <2>. QED
      BY <1>1, <2>1, <2>2 DEF Outcome, IsOvertaken, HasCreated, Passes
  <1>4. /\ verdict' \in [Callers -> Verdicts \cup {"thrown"}]
        /\ \A c \in Callers : verdict'[c] = "none" => verdict[c] = "none"
    BY <1>1
       DEF Outcome, IsOvertaken, CallsNext, HasCreated, Passes, Give, IInv, TypeOK, Verdicts
  <1>5. /\ newSite' \in Requests \cup {NoRequest} /\ scanId' \in Requests \cup {NoRequest}
        /\ cleanup' \in {"none", "pages", "website"}
    BY <1>1 DEF Outcome, IsOvertaken, CallsNext, HasCreated, Passes, IInv, TypeOK
  <1>6. TypeOK'
    BY <1>1, <1>3, <1>4, <1>5, ActsTyped DEF IInv, TypeOK
  <1>7. CallsInScript'
    <2>1. \A c \in Callers : at'[c].call <= Len(Script[c])
      <3>1. ASSUME NEW c \in Callers, at'[c] = at[c] PROVE at'[c].call <= Len(Script[c])
        BY <3>1 DEF IInv, Support, CallsInScript
      <3>2. ASSUME NEW c \in Callers, Len(Script[c]) = 2, at'[c].call = 2
            PROVE  at'[c].call <= Len(Script[c])
        BY <3>2
      <3>. QED
        BY <1>3, <3>1, <3>2
    <2>. QED
      BY <1>1, <2>1, ActsTyped DEF CallsInScript
  <1>8. BreaksCounted'
    BY <1>3, <1>4 DEF IInv, Support, BreaksCounted
  <1>. QED
    BY <1>6, <1>7, <1>8

LEMMA HeardInOrder ==
    ASSUME IInv, NEW m \in net, Serve(m), Waiting(m)
    PROVE  PhasesInOrder' /\ ScansSound' /\ CleanupSound'
  <1>1. /\ Acts(m) /\ UNCHANGED orphans
        /\ UNCHANGED <<run, phase, availability, finalized, instances, refused, killed>>
        /\ m \in Requests /\ m.caller \in Callers /\ Outcome(m) /\ Calling(m.caller)
        /\ verdict[m.caller] = "none"
    BY HeardCommon, Heard
  <1>2. \A c \in Callers \ {m.caller} : verdict'[c] = verdict[c]
    BY <1>1 DEF Outcome, IsOvertaken, CallsNext, HasCreated, Passes, Give, IInv, TypeOK
  <1>3. PhasesInOrder'
    <2>1. TestSite \in websites \cap pages => TestSite \in websites' \cap pages'
      BY <1>1 DEF Acts
    <2>2. phase # "submit" => verdict'["submitTestScan"] = verdict["submitTestScan"]
      BY <1>1, <1>2, PhaseOfCall, Names
    <2>3. phase # "afterScan" =>
              /\ verdict'["getScanWithId"] = verdict["getScanWithId"]
              /\ verdict'["getLatestScan"] = verdict["getLatestScan"]
      BY <1>1, <1>2, PhaseOfCall, Names
    <2>4. phase # "setUp" => verdict'["setUp"] = verdict["setUp"]
      BY <1>1, <1>2, PhaseOfCall, Names
    <2>5. verdict'["setUp"] = "pass" =>
              verdict["setUp"] = "pass" \/ TestSite \in websites' \cap pages'
      BY <1>1, <1>2, Names
         DEF Outcome, IsOvertaken, CallsNext, HasCreated, Passes, Give, IInv, TypeOK
    <2>. QED
      BY <1>1, <2>1, <2>2, <2>3, <2>4, <2>5 DEF IInv, Support, PhasesInOrder
  <1>4. ScansSound'
    <2>1. CASE Passes(m) /\ m.caller = "submitTestScan"
      <3>1. /\ verdict["submitTestScan"] = "none" /\ verdict'["submitTestScan"] = "pass"
            /\ scanId' = m /\ scans' = scans \cup {m}
        BY <1>1, <2>1 DEF Passes, Give, WriteScan, IInv, TypeOK
      <3>. QED
        BY <1>1, <3>1, ScansWritten DEF IInv, Support, ScansSound
    <2>2. CASE ~(Passes(m) /\ m.caller = "submitTestScan")
      <3>1. UNCHANGED <<scanId, ofScans>>
        BY <1>1, <2>2 DEF Outcome, IsOvertaken, CallsNext, HasCreated, Passes
      <3>2. verdict'["submitTestScan"] = "pass" <=> verdict["submitTestScan"] = "pass"
        BY <1>1, <1>2, <2>2, Names
           DEF Outcome, IsOvertaken, CallsNext, HasCreated, Passes, IInv, TypeOK, Give
      <3>. QED
        BY <1>1, <3>1, <3>2, ScansWritten DEF IInv, Support, ScansSound, ofScans
    <2>. QED
      BY <2>1, <2>2
  <1>5. CleanupSound'
    <2>1. CASE HasCreated(m)
      <3>1. verdict'["postNewWebsite"] = "none" /\ phase = "beforeScan"
        BY <1>1, <2>1, PhaseOfCall DEF HasCreated
      <3>. QED
        BY <1>1, <2>1, <3>1 DEF HasCreated, CleanupSound, Acts
    <2>2. CASE ~HasCreated(m)
      <3>1. UNCHANGED <<cleanup, newSite>>
        BY <1>1, <2>2 DEF Outcome, IsOvertaken, CallsNext, Passes
      <3>2. cleanup # "none" => newSite \notin SitesOf(m) /\ newSite \notin net'
        BY <1>1, Bounds DEF IInv, Support, CleanupSound, SitesOf, Acts
      <3>3. cleanup # "none" => verdict'["postNewWebsite"] = "none"
        BY <1>1, <1>2, PhaseOfCall, Names DEF IInv, Support, CleanupSound
      <3>. QED
        BY <1>1, <3>1, <3>2, <3>3 DEF IInv, Support, CleanupSound, Acts
    <2>. QED
      BY <2>1, <2>2
  <1>. QED
    BY <1>3, <1>4, <1>5

LEMMA HeardHasCause ==
    ASSUME IInv, NEW m \in net, Serve(m), Waiting(m)
    PROVE  FailureHasCause' /\ LeftoverHasCause'
  <1>1. /\ Acts(m) /\ UNCHANGED <<orphans, troubled>>
        /\ UNCHANGED <<run, phase, availability, finalized, instances, refused, killed>>
        /\ m \in Requests /\ m.caller \in Callers /\ Outcome(m) /\ Calling(m.caller)
        /\ verdict[m.caller] = "none" /\ phase # "idle"
    BY HeardCommon, Heard
  <1>2. \A c \in Callers \ {m.caller} : verdict'[c] = verdict[c]
    BY <1>1 DEF Outcome, IsOvertaken, CallsNext, HasCreated, Passes, Give, IInv, TypeOK
  <1>3. FailureHasCause'
    <2>1. verdict'[m.caller] \in {"fail", "thrown"} => m.caller = "getLatestScan" /\ Overtaken'
      BY <1>1
         DEF Outcome, IsOvertaken, CallsNext, HasCreated, Passes, Give, IInv, TypeOK, Overtaken,
             ofScans
    <2>2. verdict["getLatestScan"] \in {"fail", "thrown"} => Overtaken' = Overtaken
      <3>1. SUFFICES ASSUME verdict["getLatestScan"] \in {"fail", "thrown"}
                     PROVE  UNCHANGED <<ofScans, scanId>>
        BY <1>1 DEF Overtaken, ofScans
      <3>2. phase # "submit"
        BY <3>1 DEF IInv, Support, PhasesInOrder
      <3>3. m.caller # "submitTestScan"
        BY <1>1, <3>2, PhaseOfCall
      <3>. QED
        BY <1>1, <3>3 DEF Outcome, IsOvertaken, CallsNext, HasCreated, Passes
    <2>. QED
      BY <1>1, <1>2, <2>1, <2>2 DEF IInv, FailureHasCause
  <1>4. LeftoverHasCause'
    <2>1. CASE HasCreated(m)
      <3>1. phase = "beforeScan" /\ cleanup = "none"
        BY <1>1, <2>1, PhaseOfCall DEF HasCreated
      <3>. QED
        BY <1>1, <2>1, <3>1 DEF HasCreated, IInv, LeftoverHasCause, Acts, SitesOf
    <2>2. CASE ~HasCreated(m)
      <3>1. /\ UNCHANGED <<cleanup, newSite>>
            /\ websites' \cup pages' \subseteq websites \cup pages \cup {TestSite}
        BY <1>1, <2>2 DEF Outcome, IsOvertaken, CallsNext, Passes
      <3>. QED
        BY <1>1, <3>1 DEF IInv, LeftoverHasCause
    <2>. QED
      BY <2>1, <2>2
  <1>. QED
    BY <1>3, <1>4

LEMMA ServeStep == ASSUME NEW m \in net, IInv, Serve(m) PROVE IInv'
  <1>1. CASE Waiting(m)
    BY <1>1, HeardCommon, HeardTyped, HeardInOrder, HeardHasCause DEF IInv, Support
  <1>2. CASE ~Waiting(m)
    BY <1>2, ServeUnheardStep
  <1>. QED
    BY <1>1, <1>2

-------------------------------------------------------------------------------
LEMMA Inductive == IInv /\ [Next]_vars => IInv'
  <1> SUFFICES ASSUME IInv, [Next]_vars PROVE IInv'
    OBVIOUS
  <1>1. CASE StartRun
    BY <1>1, StartRunStep
  <1>2. ASSUME NEW c \in Callers, Send(c) \/ Break(c) PROVE IInv'
    BY <1>2, SendStep, BreakStep
  <1>3. ASSUME NEW m \in net, Serve(m) \/ ServeFails(m) \/ Lose(m) PROVE IInv'
    BY <1>3, ServeStep, ServeFailsStep, LoseStep
  <1>4. CASE Proceed
    BY <1>4, CreateInstanceStep, RunRefusalsStep, SetUpFailsStep, DeletePagesStep,
       EndsCleanupStep, EndsPhaseStep DEF Proceed, EndsPhase
  <1>5. CASE Kill
    BY <1>5, KillStep
  <1>6. CASE UNCHANGED vars
    <2>. USE <1>6 DEF vars, runner, tests, service, ofScans, history
    <2>1. TypeOK'
      BY DEF IInv, TypeOK
    <2>2. Support'
      BY DEF IInv, Support, CallsInScript, BreaksCounted, InstancesSound, Untouched,
             PhasesInOrder, ScansSound, CleanupSound
    <2>3. (FailureHasCause /\ LeftoverHasCause)'
      BY DEF IInv, FailureHasCause, Overtaken, LeftoverHasCause
    <2>. QED
      BY <2>1, <2>2, <2>3 DEF IInv
  <1>7. ASSUME NEW scan \in scans, UpdateScan(scan) PROVE IInv'
    BY <1>7, UpdateScanStep
  <1>. QED
    BY <1>1, <1>2, <1>3, <1>4, <1>5, <1>6, <1>7 DEF Next

LEMMA Invariance == Spec => []IInv
  BY Initially, Inductive, PTL DEF Spec

\* A client that could not be made leaves no calls, and no finalizer's event.
LEMMA Silenced == IInv => RejectionSilencesRun
  BY DEF IInv, Support, InstancesSound, Untouched, RejectionSilencesRun

\* The type invariant: no call is tried more than maxRetryCount times, and no request is
\* sent that is not one of a test's calls.
THEOREM TypeCorrect == Spec => []TypeOK
  <1>1. IInv => TypeOK
    BY DEF IInv
  <1>. QED
    BY <1>1, Invariance, PTL

\* A test of the end-to-end tests fails for a cause of its own (test-runner.ts:34-62,
\* test-scenario-driver.ts, retry-helper.ts:22-39), for any number of runs, tries and faults:
\* it met with a fault that retries do not make up for. The one false alarm is that of
\* getLatestScan, if another scan was written or updated in the second in which that of the
\* run was written, or later (website-scan-provider.ts:79-82).
THEOREM FailuresExplained == Spec => []FailureHasCause
  <1>1. IInv => FailureHasCause
    BY DEF IInv
  <1>. QED
    BY <1>1, Invariance, PTL

\* What a test creates, it deletes (post-website-test-group.ts:50-69): only a website that
\* was reported to nobody, whose run was killed or whose deletion failed is left behind.
THEOREM NothingLeftBehind == Spec => []LeftoverHasCause
  <1>1. IInv => LeftoverHasCause
    BY DEF IInv
  <1>. QED
    BY <1>1, Invariance, PTL

\* The promise of a client is kept even if it is rejected (system.ts:12-18): a run
\* that could not make its client at the setup makes no call and reports no end.
THEOREM RejectedClientSilencesRun == Spec => []RejectionSilencesRun
  BY Silenced, Invariance, PTL

-------------------------------------------------------------------------------
(***************************************************************************)
(* A run goes on until it ends: it can not hang, since the request that a  *)
(* test waits for is with the service, and no step of it takes anything    *)
(* back.                                                                   *)
(***************************************************************************)
\* c waits for the answer to a request.
Due(c) ==
    /\ at[c].sent /\ verdict[c] = "none"
    /\ c = "postNewWebsite" => cleanup = "none"

InTransit == phase # "idle" => \A c \in Callers : Due(c) => Calling(c) /\ Request(c) \in net

\* Only the submission of the scan throws an error out of the run.
ThrownBySubmit == \A c \in Callers : verdict[c] = "thrown" => c = "submitTestScan"

\* What the run can do next, without a fault.
CanGoOn ==
    \/ \E i \in DOMAIN instances : Awaited(i) /\ IsNil(i)
    \/ \E p \in DOMAIN Refusals : phase = p /\ refused[p] = "none"
    \/ /\ phase = "setUp" /\ verdict["setUp"] = "none"
       /\ "rejected" \in {instances["blob"], instances["webClient"]}
    \/ cleanup # "none" /\ instances["cosmos"] # "none"
    \/ \E c \in Callers : Calling(c) /\ (~at[c].sent \/ Request(c) \in net)
    \/ phase = "setUp" /\ verdict["setUp"] \in {"pass", "fail"}
    \/ phase \in DOMAIN Refusals /\ Settled(phase)
    \/ phase = "submit" /\ verdict["submitTestScan"] # "none"
    \/ phase = "finalize" /\ instances["webClient"] # "none"

LEMMA Undisturbed ==
    ASSUME IInv, InTransit, phase' = phase, run' = run,
           instances["webClient"] = "made" => instances'["webClient"] = "made",
           \A c \in Callers : Due(c)' =>
               Due(c) /\ at'[c] = at[c] /\ (Request(c) \in net => Request(c) \in net')
    PROVE  InTransit'
  <1> SUFFICES ASSUME phase # "idle", NEW c \in Callers, Due(c)'
               PROVE  Calling(c)' /\ Request(c)' \in net'
    BY DEF InTransit
  <1>1. Calling(c) /\ Request(c) \in net /\ at'[c] = at[c] /\ Request(c) \in net'
    BY DEF InTransit
  <1>2. Request(c)' = Request(c)
    BY <1>1 DEF Request
  <1>3. Calling(c)'
    BY <1>1 DEF Calling, Due
  <1>. QED
    BY <1>1, <1>2, <1>3

\* The service has done with a request that nobody waits for.
LEMMA UnheardKeeps ==
    ASSUME IInv, InTransit, NEW m \in net, ~Waiting(m), net' = net \ {m},
           UNCHANGED <<run, phase, instances, at, verdict, cleanup>>
    PROVE  InTransit'
  <1> SUFFICES ASSUME phase # "idle", NEW c \in Callers, Due(c)
               PROVE  Request(c) # m
    BY Undisturbed DEF InTransit, Due
  <1>1. Calling(c) /\ at[c].sent /\ Request(c).caller = c
    BY DEF InTransit, Due, Request
  <1>. QED
    BY <1>1 DEF Waiting

\* A caller is done with its request, which the service has or has not.
LEMMA OthersKeep ==
    ASSUME IInv, InTransit, NEW c \in Callers, ~Due(c)',
           net \ {Request(c)} \subseteq net',
           UNCHANGED <<run, phase, instances>>,
           \A d \in Callers \ {c} : at'[d] = at[d] /\ verdict'[d] = verdict[d],
           c # "postNewWebsite" => cleanup' = cleanup
    PROVE  InTransit'
  <1>1. ASSUME NEW d \in Callers, Due(d)'
        PROVE  /\ Due(d) /\ at'[d] = at[d]
               /\ Request(d) \in net => Request(d) \in net'
    <2>1. d # c
      BY <1>1
    <2>2. Due(d) /\ at'[d] = at[d]
      BY <1>1, <2>1 DEF Due
    <2>3. Request(d) # Request(c)
      BY <2>1 DEF Request
    <2>. QED
      BY <2>2, <2>3
  <1>. QED
    BY <1>1, Undisturbed

LEMMA TransitStart == StartRun => InTransit'
  <1>1. \A c \in Callers : ~AllAtStart[c].sent
    BY DEF AllAtStart, Start
  <1>. QED
    BY <1>1 DEF StartRun, InTransit, Due

LEMMA TransitSend ==
    ASSUME IInv, InTransit, NEW c \in Callers, Send(c)
    PROVE  InTransit'
  <1>. USE DEF Send, runner
  <1> SUFFICES ASSUME phase # "idle", NEW d \in Callers, Due(d)'
               PROVE  Calling(d)' /\ Request(d)' \in net'
    BY DEF InTransit
  <1>1. \A b \in Callers : at'[b].call = at[b].call /\ at'[b].try = at[b].try
    BY DEF IInv, TypeOK
  <1>2. Request(d)' = Request(d)
    BY <1>1 DEF Request
  <1>3. CASE d = c
    BY <1>2, <1>3 DEF Calling
  <1>4. CASE d # c
    <2>1. Due(d)
      BY <1>4 DEF Due, IInv, TypeOK
    <2>. QED
      BY <1>2, <2>1 DEF InTransit, Calling
  <1>. QED
    BY <1>3, <1>4

LEMMA TransitBreak ==
    ASSUME IInv, InTransit, NEW c \in Callers, Break(c)
    PROVE  InTransit'
  <1>. USE DEF Break, runner
  <1>1. net \ {Request(c)} \subseteq net'
    OBVIOUS
  <1>2. ~Due(c)'
    BY DEF IInv, TypeOK, Due, Give
  <1>3. \A d \in Callers \ {c} : at'[d] = at[d] /\ verdict'[d] = verdict[d]
    BY DEF IInv, TypeOK, Give
  <1>. QED
    BY <1>1, <1>2, <1>3, OthersKeep

LEMMA TransitServe ==
    ASSUME IInv, InTransit, NEW m \in net, Serve(m)
    PROVE  InTransit'
  <1>1. net' = net \ {m}
    BY DEF Serve
  <1>2. CASE ~Waiting(m)
    <2>1. UNCHANGED <<run, phase, instances, at, verdict, cleanup>>
      BY <1>2
         DEF Serve, PostTestSite, PostNewSite, PostScan, GetTestSite, GetScan, GetLatest,
             Reply, runner
    <2>. QED
      BY <1>1, <1>2, <2>1, UnheardKeeps
  <1>3. CASE Waiting(m)
    <2>. DEFINE c == m.caller
    <2>1. /\ c \in Callers /\ m = Request(c)
          /\ UNCHANGED <<run, phase, instances>>
          /\ Outcome(m)
      BY <1>3, HeardCommon, Heard DEF Waiting
    <2>2. ~Due(c)'
      <3>1. verdict'[c] # "none" \/ at'[c] = [Start EXCEPT !.call = 2] \/ HasCreated(m)
        BY <2>1 DEF Outcome, IsOvertaken, CallsNext, Passes, Give, IInv, TypeOK
      <3>2. ~[Start EXCEPT !.call = 2].sent
        BY DEF Start
      <3>. QED
        BY <3>1, <3>2 DEF Due, HasCreated
    <2>3. \A d \in Callers \ {c} : at'[d] = at[d] /\ verdict'[d] = verdict[d]
      BY <2>1
         DEF Outcome, IsOvertaken, CallsNext, HasCreated, Passes, Give, IInv, TypeOK
    <2>4. c # "postNewWebsite" => cleanup' = cleanup
      BY <2>1 DEF Outcome, IsOvertaken, CallsNext, HasCreated, Passes
    <2>. QED
      BY <1>1, <2>1, <2>2, <2>3, <2>4, OthersKeep
  <1>. QED
    BY <1>2, <1>3

LEMMA TransitServeFails ==
    ASSUME IInv, InTransit, NEW m \in net, ServeFails(m) \/ Lose(m)
    PROVE  InTransit'
  <1>1. /\ net' = net \ {m}
        /\ UNCHANGED <<run, phase, instances, at, cleanup>>
    BY DEF ServeFails, Lose, runner, tests
  <1>2. CASE ~Waiting(m)
    <2>1. verdict' = verdict
      BY <1>2 DEF ServeFails, Lose, tests
    <2>. QED
      BY <1>1, <1>2, <2>1, UnheardKeeps
  <1>3. CASE Waiting(m)
    <2>. DEFINE c == m.caller
    <2>1. /\ c \in Callers /\ m = Request(c) /\ Give(c, "fail")
      BY <1>3, RequestInNet DEF Waiting, ServeFails, Lose
    <2>2. ~Due(c)'
      BY <2>1 DEF Due, Give, IInv, TypeOK
    <2>3. \A d \in Callers \ {c} : at'[d] = at[d] /\ verdict'[d] = verdict[d]
      BY <1>1, <2>1 DEF Give, IInv, TypeOK
    <2>. QED
      BY <1>1, <2>1, <2>2, <2>3, OthersKeep
  <1>. QED
    BY <1>2, <1>3

\* Steps of tests that call nobody.
LEMMA TransitProceed ==
    ASSUME IInv, InTransit,
           \/ \E i \in DOMAIN instances : CreateInstance(i)
           \/ \E p \in DOMAIN Refusals : RunRefusals(p)
           \/ SetUpFails \/ DeletePages \/ DeleteWebsite \/ CleanupFails
    PROVE  InTransit'
  <1>1. UNCHANGED <<run, phase, at, net>>
    BY DEF CreateInstance, RunRefusals, SetUpFails, DeletePages, DeleteWebsite, CleanupFails,
           runner, service, tests
  <1>2. instances["webClient"] = "made" => instances'["webClient"] = "made"
    BY DEF CreateInstance, RunRefusals, SetUpFails, DeletePages, DeleteWebsite, CleanupFails,
           IInv, TypeOK, IsNil
  <1>3. \A c \in Callers : Due(c)' => Due(c)
    <2> SUFFICES ASSUME NEW c \in Callers, Due(c)' PROVE Due(c)
      OBVIOUS
    <2>1. ASSUME NEW i \in DOMAIN instances, CreateInstance(i) PROVE Due(c)
      BY <2>1 DEF CreateInstance, Due, tests
    <2>2. ASSUME NEW p \in DOMAIN Refusals, RunRefusals(p) PROVE Due(c)
      BY <2>2 DEF RunRefusals, Due
    <2>3. CASE SetUpFails
      BY <2>3 DEF SetUpFails, Due, Give, IInv, TypeOK
    <2>4. CASE DeletePages
      BY <2>4 DEF DeletePages, Due
    <2>5. CASE DeleteWebsite \/ CleanupFails
      BY <2>5 DEF DeleteWebsite, CleanupFails, Due, Give, IInv, TypeOK
    <2>. QED
      BY <2>1, <2>2, <2>3, <2>4, <2>5
  <1>. QED
    BY <1>1, <1>2, <1>3, Undisturbed

\* When a phase ends, nobody waits any more.
LEMMA TransitEndsPhase ==
    ASSUME IInv, InTransit, EndsPhase
    PROVE  InTransit'
  <1>1. UNCHANGED <<at, verdict, cleanup>>
    BY DEF EndsPhase, EndSetUp, EndBeforeScan, EndSubmit, EndAfterScan, Finalize, tests
  <1>2. phase # "idle"
    BY DEF EndsPhase, EndSetUp, EndBeforeScan, EndSubmit, EndAfterScan, Finalize
  <1>3. \A c \in Callers : ~Calling(c)
    BY Casts, Names
       DEF EndsPhase, EndSetUp, EndBeforeScan, EndSubmit, EndAfterScan, Finalize, Settled,
           Calling
  <1>. QED
    BY <1>1, <1>2, <1>3 DEF InTransit, Due

LEMMA TransitInductive ==
    ASSUME IInv, InTransit, [Next]_vars
    PROVE  InTransit'
  <1>1. CASE StartRun
    BY <1>1, TransitStart
  <1>2. ASSUME NEW c \in Callers, Send(c) \/ Break(c) PROVE InTransit'
    BY <1>2, TransitSend, TransitBreak
  <1>3. ASSUME NEW m \in net, Serve(m) \/ ServeFails(m) \/ Lose(m) PROVE InTransit'
    BY <1>3, TransitServe, TransitServeFails
  <1>4. CASE Proceed
    BY <1>4, TransitProceed, TransitEndsPhase DEF Proceed, EndsPhase
  <1>5. CASE Kill
    BY <1>5 DEF Kill, Goto, InTransit
  <1>6. CASE UNCHANGED vars
    BY <1>6, Undisturbed DEF vars, runner, tests, service, Due
  <1>7. ASSUME NEW scan \in scans, UpdateScan(scan) PROVE InTransit'
    BY <1>7, Undisturbed DEF UpdateScan, runner, tests, Due
  <1>. QED
    BY <1>1, <1>2, <1>3, <1>4, <1>5, <1>6, <1>7 DEF Next

LEMMA ThrownInductive ==
    ASSUME IInv, ThrownBySubmit, [Next]_vars
    PROVE  ThrownBySubmit'
  <1> SUFFICES ASSUME NEW c \in Callers, verdict'[c] = "thrown", verdict[c] # "thrown"
               PROVE  c = "submitTestScan"
    BY DEF ThrownBySubmit
  <1>. USE DEF Give, IInv, TypeOK
  <1>1. CASE StartRun
    BY <1>1, StartValues DEF StartRun
  <1>2. ASSUME NEW d \in Callers, Send(d) \/ Break(d) PROVE c = "submitTestScan"
    BY <1>2 DEF Send, Break
  <1>3. ASSUME NEW m \in net, Serve(m) \/ ServeFails(m) \/ Lose(m)
        PROVE  c = "submitTestScan"
    <2>1. CASE Serve(m) /\ Waiting(m)
      BY <2>1, Heard DEF Outcome, IsOvertaken, CallsNext, HasCreated, Passes
    <2>2. CASE Serve(m) /\ ~Waiting(m)
      BY <2>2
         DEF Serve, PostTestSite, PostNewSite, PostScan, GetTestSite, GetScan, GetLatest,
             Reply
    <2>3. CASE ServeFails(m) \/ Lose(m)
      BY <2>3 DEF ServeFails, Lose, tests
    <2>. QED
      BY <1>3, <2>1, <2>2, <2>3
  <1>4. CASE Proceed
    <2>1. ASSUME NEW i \in DOMAIN instances, CreateInstance(i) PROVE verdict' = verdict
      BY <2>1 DEF CreateInstance, tests
    <2>2. ASSUME NEW p \in DOMAIN Refusals, RunRefusals(p) PROVE verdict' = verdict
      BY <2>2 DEF RunRefusals
    <2>3. EndsPhase \/ DeletePages => verdict' = verdict
      BY DEF EndsPhase, EndSetUp, EndBeforeScan, EndSubmit, EndAfterScan, Finalize, tests,
             DeletePages
    <2>4. CASE SetUpFails \/ DeleteWebsite \/ CleanupFails
      BY <2>4 DEF SetUpFails, DeleteWebsite, CleanupFails
    <2>. QED
      BY <1>4, <2>1, <2>2, <2>3, <2>4 DEF Proceed, EndsPhase
  <1>5. CASE Kill \/ UNCHANGED vars
    BY <1>5 DEF Kill, vars, tests
  <1>6. ASSUME NEW scan \in scans, UpdateScan(scan) PROVE c = "submitTestScan"
    BY <1>6 DEF UpdateScan, tests
  <1>. QED
    BY <1>1, <1>2, <1>3, <1>4, <1>5, <1>6 DEF Next

\* A caller whose turn it is can go on.
LEMMA CallerGoesOn ==
    ASSUME IInv, InTransit, NEW c \in Callers, phase \in DOMAIN Phases, c \in Phases[phase],
           verdict[c] = "none", instances["webClient"] = "made"
    PROVE  CanGoOn
  <1>1. CASE c = "postNewWebsite" /\ cleanup # "none"
    <2>1. instances["cosmos"] # "none" \/ (Awaited("cosmos") /\ IsNil("cosmos"))
      BY <1>1 DEF Awaited, CleanupAwaits, IsNil
    <2>. QED
      BY <1>1, <2>1 DEF CanGoOn, IInv, TypeOK
  <1>2. CASE c = "postNewWebsite" => cleanup = "none"
    <2>1. Calling(c)
      BY <1>2 DEF Calling
    <2>2. at[c].sent => Request(c) \in net
      BY <1>2, Names DEF InTransit, Due
    <2>. QED
      BY <2>1, <2>2 DEF CanGoOn
  <1>. QED
    BY <1>1, <1>2

LEMMA GoesOn ==
    ASSUME IInv, InTransit, ThrownBySubmit, phase # "idle"
    PROVE  CanGoOn
  <1>1. CASE phase = "setUp"
    <2>1. CASE verdict["setUp"] # "none"
      BY <1>1, <2>1, Names DEF CanGoOn, IInv, TypeOK, Verdicts, ThrownBySubmit
    <2>2. CASE verdict["setUp"] = "none" /\ instances["blob"] = "none"
      <3>1. Awaited("blob") /\ IsNil("blob") /\ "blob" \in DOMAIN instances
        BY <1>1, <2>2 DEF Awaited, SetUpAwaits, IsNil, IInv, TypeOK
      <3>. QED
        BY <3>1 DEF CanGoOn
    <2>3. CASE verdict["setUp"] = "none" /\ instances["blob"] = "rejected"
      BY <1>1, <2>3 DEF CanGoOn
    <2>4. CASE /\ verdict["setUp"] = "none" /\ instances["blob"] = "made"
               /\ instances["webClient"] = "none"
      <3>1. /\ Awaited("webClient") /\ IsNil("webClient")
            /\ "webClient" \in DOMAIN instances
        BY <1>1, <2>4 DEF Awaited, ClientAwaits, IsNil, IInv, TypeOK
      <3>. QED
        BY <3>1 DEF CanGoOn
    <2>5. CASE verdict["setUp"] = "none" /\ instances["webClient"] = "rejected"
      BY <1>1, <2>5 DEF CanGoOn
    <2>6. CASE verdict["setUp"] = "none" /\ instances["webClient"] = "made"
      BY <1>1, <2>6, CallerGoesOn, Names, Casts
    <2>. QED
      BY <2>1, <2>2, <2>3, <2>4, <2>5, <2>6 DEF IInv, TypeOK
  <1>2. ASSUME phase \in DOMAIN Refusals PROVE CanGoOn
    <2>1. instances["webClient"] = "made"
      BY <1>2, Names DEF IInv, Support, InstancesSound, Untouched, PhasesInOrder
    <2>2. phase \in DOMAIN Phases /\ Phases[phase] \subseteq Callers
      BY <1>2, Names, Casts
    <2>3. CASE Settled(phase)
      BY <1>2, <2>3 DEF CanGoOn
    <2>4. CASE refused[phase] = "none"
      BY <1>2, <2>4 DEF CanGoOn
    <2>5. CASE \E c \in Phases[phase] : verdict[c] = "none"
      BY <2>1, <2>2, <2>5, CallerGoesOn
    <2>. QED
      BY <2>3, <2>4, <2>5 DEF Settled
  <1>3. CASE phase = "submit"
    <2>1. instances["webClient"] = "made"
      BY <1>3 DEF IInv, Support, InstancesSound, Untouched, PhasesInOrder
    <2>2. CASE verdict["submitTestScan"] = "none"
      BY <1>3, <2>1, <2>2, CallerGoesOn, Names, Casts
    <2>. QED
      BY <1>3, <2>2 DEF CanGoOn
  <1>4. CASE phase = "finalize"
    <2>1. instances["webClient"] = "none" => Awaited("webClient") /\ IsNil("webClient")
      BY <1>4 DEF Awaited, ClientAwaits, IsNil
    <2>. QED
      BY <1>4, <2>1 DEF CanGoOn, IInv, TypeOK
  <1>. QED
    BY <1>1, <1>2, <1>3, <1>4, Names DEF IInv, TypeOK

\* A run that has not ended can always go on without a fault (test-scenario-driver.ts,
\* retry-helper.ts:22-39, system.ts:12-18): no test waits for the answer to a request that
\* is not with the service, for a client that nobody creates, or for a phase that does not
\* end. With RunsGoForward, this is why every run ends if its steps are taken.
THEOREM RunsNeverHang == Spec => [](phase # "idle" => CanGoOn)
  <1>1. Init => IInv /\ InTransit /\ ThrownBySubmit
    BY Initially, StartValues DEF Init, InTransit, ThrownBySubmit
  <1>2. IInv /\ InTransit /\ ThrownBySubmit /\ [Next]_vars
            => (IInv /\ InTransit /\ ThrownBySubmit)'
    BY Inductive, TransitInductive, ThrownInductive
  <1>3. IInv /\ InTransit /\ ThrownBySubmit => (phase # "idle" => CanGoOn)
    BY GoesOn
  <1>. QED
    BY <1>1, <1>2, <1>3, PTL DEF Spec

-------------------------------------------------------------------------------
(***************************************************************************)
(* A run comes nearer to its end with every step of its own.               *)
(***************************************************************************)
\* The order of the phases
Order ==
    [setUp |-> 1, beforeScan |-> 2, submit |-> 3, afterScan |-> 4, finalize |-> 5, idle |-> 6]

PhaseMoves == Order[phase] < Order[phase']

\* c gets its verdict, or comes to its next call, to another try or to an answer.
CallerMoves(c) ==
    /\ verdict[c] = "none"
    /\ \/ verdict'[c] # "none" /\ at'[c] = at[c]
       \/ /\ verdict'[c] = "none"
          /\ \/ at[c].call < at'[c].call
             \/ at[c].call = at'[c].call /\ at[c].try < at'[c].try
             \/ /\ at[c].call = at'[c].call /\ at[c].try = at'[c].try
                /\ ~at[c].sent /\ at'[c].sent

CallerStays(c) == verdict'[c] = verdict[c] /\ at'[c] = at[c]

InstanceMoves(i) == instances[i] = "none" /\ instances'[i] # "none"

RefusalsMove(p) == refused[p] = "none" /\ refused'[p] # "none"

CleanupMoves ==
    /\ verdict["postNewWebsite"] = "none"
    /\ \/ cleanup = "none" /\ cleanup' = "pages"
       \/ cleanup = "pages" /\ cleanup' = "website"
       \/ /\ cleanup # "none" /\ cleanup' = "none"
          /\ phase' = "idle" \/ verdict'["postNewWebsite"] # "none"

Moves ==
    \/ \E c \in Callers : CallerMoves(c)
    \/ PhaseMoves
    \/ \E i \in DOMAIN instances : InstanceMoves(i)
    \/ \E p \in DOMAIN refused : RefusalsMove(p)
    \/ CleanupMoves

\* Nothing that a run has done is undone.
Forward ==
    /\ run' = run
    /\ \A c \in Callers : CallerStays(c) \/ CallerMoves(c)
    /\ phase' = phase \/ PhaseMoves
    /\ \A i \in DOMAIN instances : instances'[i] = instances[i] \/ InstanceMoves(i)
    /\ \A p \in DOMAIN refused : refused'[p] = refused[p] \/ RefusalsMove(p)
    /\ cleanup' = cleanup \/ CleanupMoves

\* The service has done with a request that nobody waits for.
Leftover ==
    /\ net' \subseteq net /\ net' # net
    /\ UNCHANGED <<run, phase, instances, at, verdict, refused, cleanup>>

\* The steps of a run that fairness speaks of
RunStep == Proceed \/ \E c \in Callers : Send(c) \/ Settle(c)

LEMMA ForwardSend ==
    ASSUME IInv, NEW c \in Callers, Send(c) PROVE Forward /\ Moves
  <1>. USE DEF Send, runner
  <1>1. /\ at'[c].call = at[c].call /\ at'[c].try = at[c].try /\ ~at[c].sent /\ at'[c].sent
        /\ \A d \in Callers \ {c} : at'[d] = at[d]
    BY DEF IInv, TypeOK
  <1>2. CallerMoves(c)
    BY <1>1 DEF CallerMoves, Calling
  <1>3. \A d \in Callers : CallerStays(d) \/ CallerMoves(d)
    BY <1>1, <1>2 DEF CallerStays
  <1>. QED
    BY <1>2, <1>3 DEF Forward, Moves

LEMMA ForwardBreak ==
    ASSUME IInv, NEW c \in Callers, Break(c) PROVE Forward /\ Moves
  <1>1. at[c].call \in Nat /\ at[c].try \in Nat /\ verdict[c] = "none"
    <2>1. at[c] \in [call : 1 .. 2, try : 1 .. MaxTries, sent : BOOLEAN]
      BY DEF IInv, TypeOK
    <2>2. verdict[c] = "none"
      BY DEF Break, Calling
    <2>. QED
      BY <2>1, <2>2, Bounds
  <1>. USE DEF Break, runner
  <1>2. \A d \in Callers \ {c} : at'[d] = at[d] /\ verdict'[d] = verdict[d]
    BY DEF IInv, TypeOK, Give
  <1>3. CallerMoves(c)
    <2>1. CASE MoreTries(c)
      <3>1. /\ verdict' = verdict
            /\ at' = [at EXCEPT ![c].try = @ + 1, ![c].sent = FALSE]
        BY <2>1
      <3>2. at'[c].call = at[c].call /\ at'[c].try = at[c].try + 1
        BY <3>1 DEF IInv, TypeOK
      <3>. QED
        BY <1>1, <3>1, <3>2 DEF CallerMoves
    <2>2. CASE ~MoreTries(c)
      <3>1. at' = at /\ verdict'[c] # "none"
        BY <2>2 DEF IInv, TypeOK, Give
      <3>. QED
        BY <1>1, <3>1 DEF CallerMoves
    <2>. QED
      BY <2>1, <2>2
  <1>. QED
    BY <1>2, <1>3 DEF Forward, Moves, CallerStays

LEMMA ForwardUnheard ==
    ASSUME IInv, NEW m \in net, Serve(m) \/ ServeFails(m) \/ Lose(m), ~Waiting(m)
    PROVE  Leftover
  <1>1. CASE Serve(m)
    BY <1>1
       DEF Leftover, Serve, PostTestSite, PostNewSite, PostScan, GetTestSite, GetScan,
           GetLatest, Reply, runner
  <1>2. CASE ServeFails(m) \/ Lose(m)
    BY <1>2 DEF Leftover, ServeFails, Lose, runner, tests
  <1>. QED
    BY <1>1, <1>2

LEMMA ForwardHeard ==
    ASSUME IInv, NEW m \in net, Serve(m) \/ ServeFails(m), Waiting(m)
    PROVE  Forward /\ Moves
  <1>. DEFINE c == m.caller
  <1>1. /\ c \in Callers /\ verdict[c] = "none" /\ m = Request(c)
        /\ c = "postNewWebsite" => cleanup = "none"
        /\ at[c].call \in 1 .. 2 /\ at[c].call <= Len(Script[c])
    BY WaitingFacts DEF Waiting, Calling
  <1>. HIDE DEF c
  <1>2. UNCHANGED <<run, phase, instances, refused>>
    BY ServeActs DEF Acts, runner
  <1>3. \A d \in Callers \ {c} : at'[d] = at[d] /\ verdict'[d] = verdict[d]
    <2>1. CASE ServeFails(m)
      BY <2>1 DEF ServeFails, Give, IInv, TypeOK, c
    <2>2. CASE Serve(m)
      <3>1. Outcome(m)
        BY <2>2, Heard
      <3>. QED
        BY <3>1
           DEF Outcome, IsOvertaken, CallsNext, HasCreated, Passes, Give, IInv, TypeOK, c
    <2>. QED
      BY <2>1, <2>2
  <1>4. \/ CallerMoves(c) /\ cleanup' = cleanup
        \/ CallerStays(c) /\ c = "postNewWebsite" /\ cleanup' = "pages"
    <2>1. CASE ServeFails(m)
      BY <1>1, <2>1 DEF ServeFails, Give, CallerMoves, IInv, TypeOK, c
    <2>2. CASE Serve(m)
      <3>1. Outcome(m)
        BY <2>2, Heard
      <3>2. CASE CallsNext(m)
        <4>1. [Start EXCEPT !.call = 2].call = 2
          BY DEF Start
        <4>2. /\ at'[c] = [Start EXCEPT !.call = 2]
              /\ verdict' = verdict /\ cleanup' = cleanup /\ m.call = 1
          BY <1>1, <3>2 DEF CallsNext, IInv, TypeOK, c
        <4>3. at[c].call = 1 /\ at'[c].call = 2
          BY <1>1, <4>1, <4>2 DEF Request
        <4>. HIDE DEF CallsNext
        <4>. QED
          BY <1>1, <4>2, <4>3 DEF CallerMoves
      <3>3. CASE HasCreated(m)
        BY <1>1, <3>3 DEF HasCreated, CallerStays, c
      <3>4. CASE IsOvertaken(m) \/ Passes(m)
        BY <1>1, <3>4 DEF IsOvertaken, Passes, Give, CallerMoves, IInv, TypeOK, c
      <3>. QED
        BY <3>1, <3>2, <3>3, <3>4 DEF Outcome
    <2>. QED
      BY <2>1, <2>2
  <1>5. CASE CallerMoves(c) /\ cleanup' = cleanup
    BY <1>1, <1>2, <1>3, <1>5 DEF Forward, Moves, CallerStays
  <1>6. CASE CallerStays(c) /\ c = "postNewWebsite" /\ cleanup' = "pages"
    <2>1. CleanupMoves
      BY <1>1, <1>6 DEF CleanupMoves
    <2>2. \A d \in Callers : CallerStays(d)
      BY <1>3, <1>6 DEF CallerStays
    <2>. QED
      BY <1>2, <2>1, <2>2 DEF Forward, Moves
  <1>. QED
    BY <1>4, <1>5, <1>6

LEMMA ForwardInstance ==
    ASSUME IInv, NEW i \in DOMAIN instances, CreateInstance(i) PROVE Forward /\ Moves
  <1>1. UNCHANGED <<run, phase, at, verdict, refused, cleanup>>
    BY DEF CreateInstance, runner, tests
  <1>2. InstanceMoves(i)
    BY DEF CreateInstance, IInv, TypeOK, IsNil, InstanceMoves
  <1>3. \A j \in DOMAIN instances : j # i => instances'[j] = instances[j]
    BY DEF CreateInstance, IInv, TypeOK
  <1>. QED
    BY <1>1, <1>2, <1>3 DEF Forward, Moves, CallerStays

LEMMA ForwardRefusals ==
    ASSUME IInv, NEW p \in DOMAIN Refusals, RunRefusals(p) PROVE Forward /\ Moves
  <1>1. UNCHANGED <<run, phase, instances, at, verdict, cleanup>>
    BY DEF RunRefusals, runner
  <1>2. RefusalsMove(p) /\ p \in DOMAIN refused
    BY AllRefused DEF RunRefusals, IInv, TypeOK, RefusalsMove
  <1>3. \A q \in DOMAIN refused : q # p => refused'[q] = refused[q]
    BY DEF RunRefusals, IInv, TypeOK
  <1>. QED
    BY <1>1, <1>2, <1>3 DEF Forward, Moves, CallerStays

\* The setup or the cleanup goes on.
LEMMA ForwardTest ==
    ASSUME IInv, SetUpFails \/ DeletePages \/ DeleteWebsite \/ CleanupFails
    PROVE  Forward /\ Moves
  <1>. DEFINE c == IF SetUpFails THEN "setUp" ELSE "postNewWebsite"
  <1>1. UNCHANGED <<run, phase, instances, at, refused>>
    BY DEF SetUpFails, DeletePages, DeleteWebsite, CleanupFails, runner
  <1>2. CASE SetUpFails
    <2>1. CallerMoves("setUp") /\ "setUp" \in Callers
      BY <1>2, Names DEF SetUpFails, Give, CallerMoves, IInv, TypeOK
    <2>2. /\ \A d \in Callers : d # "setUp" => CallerStays(d)
          /\ cleanup' = cleanup
      BY <1>2 DEF SetUpFails, Give, CallerStays, IInv, TypeOK
    <2>. QED
      BY <1>1, <2>1, <2>2 DEF Forward, Moves
  <1>3. CASE DeletePages
    <2>1. CleanupMoves
      BY <1>3 DEF DeletePages, CleanupMoves, IInv, Support, CleanupSound
    <2>. QED
      BY <1>1, <1>3, <2>1 DEF DeletePages, Forward, Moves, CallerStays
  <1>4. CASE DeleteWebsite \/ CleanupFails
    <2>1. cleanup # "none" /\ cleanup' = "none" /\ verdict["postNewWebsite"] = "none"
      BY <1>4 DEF DeleteWebsite, CleanupFails, IInv, Support, CleanupSound
    <2>2. /\ verdict'["postNewWebsite"] # "none"
          /\ \A d \in Callers : d # "postNewWebsite" => verdict'[d] = verdict[d]
      BY <1>4, Names DEF DeleteWebsite, CleanupFails, Give, IInv, TypeOK
    <2>3. CleanupMoves /\ CallerMoves("postNewWebsite")
      BY <1>1, <2>1, <2>2 DEF CleanupMoves, CallerMoves
    <2>. QED
      BY <1>1, <2>2, <2>3 DEF Forward, Moves, CallerStays
  <1>. QED
    BY <1>2, <1>3, <1>4

LEMMA ForwardPhase ==
    ASSUME IInv, EndsPhase PROVE Forward /\ Moves
  <1>1. UNCHANGED <<run, instances, at, verdict, refused, cleanup>>
    BY DEF EndsPhase, EndSetUp, EndBeforeScan, EndSubmit, EndAfterScan, Finalize, Goto, tests
  <1>2. PhaseMoves
    BY DEF EndsPhase, EndSetUp, EndBeforeScan, EndSubmit, EndAfterScan, Finalize, Goto, Order,
           PhaseMoves
  <1>. QED
    BY <1>1, <1>2 DEF Forward, Moves, CallerStays

LEMMA ForwardKill ==
    ASSUME IInv, Kill PROVE Forward /\ Moves
  <1>1. UNCHANGED <<run, instances, at, verdict, refused>>
    BY DEF Kill, Goto
  <1>2. PhaseMoves
    <2>1. phase \in {"setUp", "beforeScan", "submit", "afterScan", "finalize"}
      BY Names DEF Kill, IInv, TypeOK
    <2>2. phase' = "idle"
      BY DEF Kill, Goto
    <2>. QED
      BY <2>1, <2>2 DEF Order, PhaseMoves
  <1>3. cleanup' = cleanup \/ CleanupMoves
    BY DEF Kill, Goto, CleanupMoves, IInv, Support, CleanupSound
  <1>. QED
    BY <1>1, <1>2, <1>3 DEF Forward, Moves, CallerStays

LEMMA ForwardProceed ==
    ASSUME IInv, Proceed PROVE Forward /\ Moves
  BY ForwardInstance, ForwardRefusals, ForwardTest, ForwardPhase DEF Proceed, EndsPhase

LEMMA StepsGoForward ==
    ASSUME IInv, [Next]_vars
    PROVE  /\ run' # run \/ Forward
           /\ RunStep => (Forward /\ Moves) \/ Leftover
  <1>1. ASSUME NEW c \in Callers, Send(c) \/ Settle(c)
        PROVE  (Forward /\ Moves) \/ Leftover
    <2>1. CASE Send(c) \/ Break(c)
      BY <2>1, ForwardSend, ForwardBreak
    <2>2. ASSUME NEW m, m = Request(c), Serve(m) \/ ServeFails(m)
          PROVE  (Forward /\ Moves) \/ Leftover
      <3>1. m \in net
        BY <2>2 DEF Serve, ServeFails
      <3>. QED
        BY <2>2, <3>1, ForwardHeard, ForwardUnheard
    <2>. QED
      BY <1>1, <2>1, <2>2 DEF Settle
  <1>2. RunStep => (Forward /\ Moves) \/ Leftover
    BY <1>1, ForwardProceed DEF RunStep
  <1>3. Leftover => Forward
    BY DEF Leftover, Forward, CallerStays
  <1>4. CASE StartRun
    <2>1. run' # run
      BY <1>4, Bounds DEF StartRun, IInv, TypeOK
    <2>. QED
      BY <1>2, <2>1
  <1>5. CASE \E c \in Callers : Send(c) \/ Break(c)
    BY <1>2, <1>5, ForwardSend, ForwardBreak
  <1>6. CASE \E m \in net : Serve(m) \/ ServeFails(m) \/ Lose(m)
    <2>1. PICK m \in net : Serve(m) \/ ServeFails(m) \/ Lose(m)
      BY <1>6
    <2>2. Waiting(m) => ~Lose(m)
      BY DEF Lose
    <2>. QED
      BY <1>2, <1>3, <2>1, <2>2, ForwardHeard, ForwardUnheard
  <1>7. CASE Proceed \/ Kill
    BY <1>2, <1>7, ForwardProceed, ForwardKill
  <1>8. CASE UNCHANGED vars
    <2>1. Forward
      BY <1>8 DEF vars, runner, tests, Forward, CallerStays
    <2>. QED
      BY <1>2, <2>1
  <1>9. CASE \E scan \in scans : UpdateScan(scan)
    <2>1. Forward
      BY <1>9 DEF UpdateScan, runner, tests, Forward, CallerStays
    <2>. QED
      BY <1>2, <2>1
  <1>. QED
    BY <1>4, <1>5, <1>6, <1>7, <1>8, <1>9 DEF Next

\* No step but the start of the next run undoes what a run has done: verdicts, instances and
\* phases stay behind it, calls and tries are counted up (retry-helper.ts:22-39,
\* test-runner.ts:34-62). Every step of a run that fairness speaks of brings it nearer to its
\* end, or takes one of the requests that are left over, of which only a caller's send makes
\* more. There are MaxTries tries of two calls at most, so a run has finitely many steps.
THEOREM RunsGoForward ==
    Spec => [][/\ run' # run \/ Forward
               /\ RunStep => (Forward /\ Moves) \/ Leftover]_vars
  BY Invariance, StepsGoForward, PTL DEF Spec
=============================================================================
