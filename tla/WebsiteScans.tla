----------------------------- MODULE WebsiteScans -----------------------------
(***************************************************************************)
(* Scans of websites. POST scan (post-website-scan-controller.ts) creates  *)
(* the document of a scan; a scanner, which is external, creates and       *)
(* updates the documents of its page scans through the data providers; GET *)
(* scan (get-website-scan-controller.ts) finds a scan by its id or the     *)
(* latest one, and collects its page scans, one page of the query results  *)
(* after the other. Every document is stored in the partition of the node  *)
(* part of its id (partition-key-factory.ts), and every read or query      *)
(* looks into one partition.                                               *)
(***************************************************************************)
EXTENDS Naturals, Sequences

CONSTANTS
    Websites,
    Nodes,         \* node parts of guids
    NodeOf,        \* NodeOf[w]: node of the id of website w
    Pages,
    WebsiteOf,     \* WebsiteOf[p]: website of page p
    Posts,         \* POST requests; the scan that a request creates has its name
    Gets,          \* GET requests
    MaxPageScans,  \* bound on the page scans the scanner creates
    MaxTime,       \* bound on the clock, in seconds
    NoScan

ASSUME BoundsAssumption == {MaxPageScans, MaxTime} \subseteq Nat

ASSUME NodeAssumption == NodeOf \in [Websites -> Nodes]

ASSUME PageAssumption == WebsiteOf \in [Pages -> Websites]

\* A scan document; its time stamp _ts counts seconds.
Scans == [id : Posts, website : Websites, partition : Nodes, ts : 0 .. MaxTime]

ASSUME NoScanAssumption == NoScan \notin Scans

PageScans == [scan : Posts, page : Pages, partition : Nodes]

\* What requests that pass their validators ask for: ids are well-formed, whether there
\* is such a document or not.
ScanRequests == [Posts -> Websites]

Targets == [website : Websites, id : Posts] \cup [website : Websites, latest : {TRUE}]

VARIABLES
    now,        \* the clock of the database
    websites,   \* websites that exist
    scans,      \* documents of scans
    pageScans,  \* documents of page scans, in the order of their creation
    website,    \* website[p]: what POST p wants to scan
    postPc,     \* postPc[p]: "start", "found", "created", "notFound" or "failed"
    target,     \* target[g]: what GET g asks for
    getPc,      \* getPc[g]: "idle", "start", "query", "done", "notFound" or "failed"
    found,      \* found[g]: the scan document that g has read
    position,   \* position[g]: how far the continuation token has got
    collected,  \* collected[g]: indices of the page scans in the response
    twice,      \* twice[g]: some page scan is in the response twice
    expected,   \* history: acknowledged scans when g was received
    existing    \* history: number of page scans when g was received

database == <<now, websites, scans, pageScans>>

post == <<website, postPc>>

get == <<target, getPc, found, position, collected, twice, expected, existing>>

vars == <<database, post, get>>

Init ==
    /\ now = 0
    /\ websites = {}
    /\ scans = {}
    /\ pageScans = <<>>
    /\ website \in ScanRequests
    /\ postPc = [p \in Posts |-> "start"]
    /\ target \in [Gets -> Targets]
    /\ getPc = [g \in Gets |-> "idle"]
    /\ found = [g \in Gets |-> NoScan]
    /\ position = [g \in Gets |-> 0]
    /\ collected = [g \in Gets |-> {}]
    /\ twice = [g \in Gets |-> FALSE]
    /\ expected = [g \in Gets |-> {}]
    /\ existing = [g \in Gets |-> 0]

Tick ==
    /\ now < MaxTime
    /\ now' = now + 1
    /\ UNCHANGED <<websites, scans, pageScans, post, get>>

\* POST website creates the document (see PostWebsite).
CreateWebsite(w) ==
    /\ w \notin websites
    /\ websites' = websites \cup {w}
    /\ UNCHANGED <<now, scans, pageScans, post, get>>

-------------------------------------------------------------------------------
\* POST scan

PostTo(p, label) == postPc' = [postPc EXCEPT ![p] = label]

\* tryReadWebsite()
ReadWebsite(p) ==
    /\ postPc[p] = "start"
    /\ PostTo(p, IF website[p] \in websites THEN "found" ELSE "notFound")
    /\ UNCHANGED <<database, website, get>>

\* Mutant: the id of the scan does not take over the node of the website's id.
FreshNode(p) == Nodes

\* createGuidFromBaseGuid(websiteId)
ScanNode(p) == {NodeOf[website[p]]}

ScanOf(p, n) == [id |-> p, website |-> website[p], partition |-> n, ts |-> now]

\* createScanDocumentForWebsite()
CreateScan(p) ==
    /\ postPc[p] = "found"
    /\ \E n \in ScanNode(p) : scans' = scans \cup {ScanOf(p, n)}
    /\ PostTo(p, "created")
    /\ UNCHANGED <<now, websites, pageScans, website, get>>

\* A call to the database fails, perhaps after the document was written.
PostFails(p) ==
    /\ \/ postPc[p] = "start" /\ UNCHANGED scans
       \/ /\ postPc[p] = "found"
          /\ \/ UNCHANGED scans
             \/ \E n \in ScanNode(p) : scans' = scans \cup {ScanOf(p, n)}
    /\ PostTo(p, "failed")
    /\ UNCHANGED <<now, websites, pageScans, website, get>>

-------------------------------------------------------------------------------
\* The scanner

\* The id of the page scan takes over the node of the page's id, which has the node of
\* the website's (see PostWebsite).
PageScanOf(s, p) == [scan |-> s.id, page |-> p, partition |-> NodeOf[WebsiteOf[p]]]

\* createPageScan()
CreatePageScan(s, p) ==
    /\ Len(pageScans) < MaxPageScans
    /\ WebsiteOf[p] = s.website
    /\ pageScans' = Append(pageScans, PageScanOf(s, p))
    /\ UNCHANGED <<now, websites, scans, post, get>>

\* updateWebsiteScan(): every update of a document sets its time stamp.
UpdateScan(s) ==
    /\ scans' = (scans \ {s}) \cup {[s EXCEPT !.ts = now]}
    /\ UNCHANGED <<now, websites, pageScans, post, get>>

-------------------------------------------------------------------------------
\* GET scan

GetTo(g, label) == getPc' = [getPc EXCEPT ![g] = label]

\* The request is received, after any number of other calls were answered.
ReceiveGet(g) ==
    /\ getPc[g] = "idle"
    /\ GetTo(g, "start")
    /\ expected' = [expected EXCEPT ![g] = {s \in scans : postPc[s.id] = "created"}]
    /\ existing' = [existing EXCEPT ![g] = Len(pageScans)]
    /\ UNCHANGED <<database, post, target, found, position, collected, twice>>

\* Scans of website w, in the partition that the node of its id names.
ScansOf(w) == {s \in scans : s.website = w /\ s.partition = NodeOf[w]}

\* Mutant: the scans are in ascending order.
LatestAscending(w) == {s \in ScansOf(w) : \A t \in ScansOf(w) : s.ts <= t.ts}

\* getLatestScanForWebsite(): SELECT TOP 1 ... ORDER BY c._ts DESC; the order of
\* documents of the same second is any.
LatestScans(w) == {s \in ScansOf(w) : \A t \in ScansOf(w) : s.ts >= t.ts}

\* The documents that the read or query of g can yield. readWebsiteScan() takes the
\* partition from the id of the scan, and the controller does not look at the
\* website that the request names.
Matches(g) ==
    IF "latest" \in DOMAIN target[g]
    THEN LatestScans(target[g].website)
    ELSE {s \in scans : s.id = target[g].id}

\* getScanWithId() and getLatestWebsiteScan()
FindScan(g) ==
    /\ getPc[g] = "start"
    /\ \E s \in Matches(g) : found' = [found EXCEPT ![g] = s]
    /\ GetTo(g, "query")
    /\ UNCHANGED <<database, post, target, position, collected, twice, expected, existing>>

\* Mutant: a scan that was not found is not reported.
FindNothingIgnored(g) ==
    /\ getPc[g] = "start"
    /\ Matches(g) = {}
    /\ GetTo(g, "query")
    /\ UNCHANGED <<database, post, target, found, position, collected, twice, expected, existing>>

FindNothing(g) ==
    /\ getPc[g] = "start"
    /\ Matches(g) = {}
    /\ GetTo(g, "notFound")
    /\ UNCHANGED <<database, post, target, found, position, collected, twice, expected, existing>>

\* What the query getAllPageScansForWebsiteScan() has not returned yet.
Remaining(g) ==
    {i \in position[g] + 1 .. Len(pageScans) :
        /\ pageScans[i].scan = found[g].id
        /\ pageScans[i].partition = found[g].partition}

UpTo(i, is) == {j \in is : j <= i}

\* Mutants: the continuation token is not passed on; the loop ends with the first
\* page of results.
AdvanceNot(g, i) == UNCHANGED position

AdvanceToEnd(g, i) == position' = [position EXCEPT ![g] = Len(pageScans)]

Advance(g, i) == position' = [position EXCEPT ![g] = i]

\* readItems() returns one page of results, and the converter reads the page document
\* of each page scan in it.
FetchPage(g) ==
    /\ getPc[g] = "query"
    /\ \E i \in Remaining(g) :
           LET batch == UpTo(i, Remaining(g))
           IN  /\ Advance(g, i)
               /\ collected' = [collected EXCEPT ![g] = @ \cup batch]
               /\ twice' = [twice EXCEPT ![g] = @ \/ collected[g] \cap batch # {}]
    /\ UNCHANGED <<database, post, target, getPc, found, expected, existing>>

\* There is no continuation token any more.
Respond(g) ==
    /\ getPc[g] = "query"
    /\ Remaining(g) = {}
    /\ GetTo(g, "done")
    /\ UNCHANGED <<database, post, target, found, position, collected, twice, expected, existing>>

\* A call to the database fails.
GetFails(g) ==
    /\ getPc[g] \in {"start", "query"}
    /\ GetTo(g, "failed")
    /\ UNCHANGED <<database, post, target, found, position, collected, twice, expected, existing>>

-------------------------------------------------------------------------------
PostStep(p) == ReadWebsite(p) \/ CreateScan(p)

GetStep(g) == FindScan(g) \/ FindNothing(g) \/ FetchPage(g) \/ Respond(g)

Next ==
    \/ Tick
    \/ \E w \in Websites : CreateWebsite(w)
    \/ \E p \in Posts : PostStep(p) \/ PostFails(p)
    \/ \E s \in scans : UpdateScan(s) \/ \E p \in Pages : CreatePageScan(s, p)
    \/ \E g \in Gets : ReceiveGet(g) \/ GetStep(g) \/ GetFails(g)

Spec == Init /\ [][Next]_vars

\* The event loop runs every request, and every call to the database ends: if it does
\* not fail, it is answered.
FairSpec ==
    /\ Spec
    /\ \A p \in Posts : WF_vars(PostStep(p))
    /\ \A g \in Gets : WF_vars(GetStep(g))

-------------------------------------------------------------------------------
\* A request that queries page scans has found a scan.
TypeOK ==
    /\ now \in 0 .. MaxTime
    /\ websites \subseteq Websites
    /\ scans \subseteq Scans
    /\ pageScans \in Seq(PageScans)
    /\ website \in [Posts -> Websites]
    /\ postPc \in [Posts -> {"start", "found", "created", "notFound", "failed"}]
    /\ target \in [Gets -> Targets]
    /\ getPc \in [Gets -> {"idle", "start", "query", "done", "notFound", "failed"}]
    /\ found \in [Gets -> Scans \cup {NoScan}]
    /\ \A g \in Gets : getPc[g] \in {"query", "done"} => found[g] # NoScan
    /\ position \in [Gets -> 0 .. MaxPageScans]
    /\ collected \in [Gets -> SUBSET (1 .. MaxPageScans)]
    /\ twice \in [Gets -> BOOLEAN]
    /\ expected \in [Gets -> SUBSET Scans]
    /\ existing \in [Gets -> 0 .. MaxPageScans]

Asked(g, s) ==
    IF "latest" \in DOMAIN target[g]
    THEN s.website = target[g].website
    ELSE s.id = target[g].id

\* GET finds every scan whose POST was answered before the GET was received, by its id
\* and as the latest one: the partition derived from the website's id (a query for the
\* latest) and the one derived from the scan's id (its document) are the same.
AcknowledgedScanFound ==
    \A g \in Gets : getPc[g] = "notFound" => \A s \in expected[g] : ~Asked(g, s)

\* The latest scan is a scan of the website that was asked for, also if websites share
\* a partition, and no scan acknowledged before the request was written last in a later
\* second than the scan returned.
LatestIsNewest ==
    \A g \in Gets :
        found[g] # NoScan /\ "latest" \in DOMAIN target[g] =>
            /\ found[g].website = target[g].website
            /\ \A s \in expected[g] : Asked(g, s) => s.ts <= found[g].ts

\* The response has every page scan of the scan that existed when the request was
\* received, none of another scan, and none twice, though the scanner creates page
\* scans and updates the scan while the results are fetched page by page.
ResponseComplete ==
    \A g \in Gets : getPc[g] = "done" =>
        /\ \A i \in 1 .. existing[g] : pageScans[i].scan = found[g].id => i \in collected[g]
        /\ \A i \in collected[g] : pageScans[i].scan = found[g].id
        /\ ~twice[g]

\* Every request is answered, though the scanner goes on to create page scans.
EveryRequestAnswered ==
    /\ \A p \in Posts : <>(postPc[p] \in {"created", "notFound", "failed"})
    /\ \A g \in Gets : getPc[g] = "start" ~> getPc[g] \in {"done", "notFound", "failed"}

===============================================================================
