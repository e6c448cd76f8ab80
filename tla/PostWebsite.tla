----------------------------- MODULE PostWebsite -----------------------------
(***************************************************************************)
(* PostWebsiteController.handleRequest(): the website document is created  *)
(* or updated, the page documents of the website are queried, and a page   *)
(* document is created for every known page that the query did not list.   *)
(* The page documents are created at the same time, and requests for the   *)
(* same website run at the same time.                                      *)
(*                                                                         *)
(* WebsiteProvider.updateWebsite() acts on the website document as         *)
(* DocumentStore promises (MergeOrWrite implements it): in one step, or    *)
(* over whatever is there if the request saw no document. A website        *)
(* document is abstracted to its knownPages, which every payload must have *)
(* and so every document has (a read that fails with an error response is  *)
(* a call that fails here: the merge throws), and that array to how often  *)
(* it holds each URL: its order matters to nobody. No document is deleted  *)
(* here: the web API has no such operation.                                *)
(***************************************************************************)
EXTENDS Naturals

CONSTANTS
    Requests,  \* POST /websites requests
    Websites,  \* ids of websites
    Urls,      \* URLs of pages
    Payloads,  \* knownPages of the requests
    Absent,    \* what is stored under an id that has no document
    Nowhere    \* the id of no website

\* Arrays of URLs.
Arrays == [Urls -> Nat]

ASSUME PayloadsAssumption == Payloads \subseteq Arrays

ASSUME AbsentAssumption == Absent \notin Arrays

ASSUME NowhereAssumption == Nowhere \notin Websites

VARIABLES
    sites,     \* sites[w]: knownPages of the website document w, or Absent
    pages,     \* page documents: of which website and URL, who created them
    op,        \* op[r]: what r asks for: "create" or "update", of which id (it is
               \* generated for a create), and the knownPages of the payload
    pc,        \* pc[r]: where the handler of r is
    known,     \* known[r]: knownPages of the website document r got
    listed,    \* listed[r]: the page documents that the query of r lists
    newPages,  \* newPages[r]: elements of known[r] that r creates a page for
    pending,   \* pending[r]: those of newPages[r] not yet created or failed
    outcome,   \* outcome[r]: status of the response
    earlier,   \* earlier[r]: history, requests answered before r came in
    leftover,  \* leftover[r]: history, creations of those that were still going
               \* on, behind an error response, when r came in
    overwritten  \* history, websites whose document was written over

vars == <<sites, pages, op, pc, known, listed, newPages, pending, outcome,
          earlier, leftover, overwritten>>

store == <<sites, pages, overwritten>>

history == <<earlier, leftover>>

Empty == [u \in Urls |-> 0]

\* The elements of an array: a URL, and which of its occurrences.
Elements(array) == UNION {{u} \X (1 .. array[u]) : u \in Urls}

\* Mutant: the custom merge is lost, the new array overrides the stored one.
MergeKnownPagesOverriding(stored, source) == source

\* The custom merge of updateWebsite(): concat and deduplicate. Both arrays are
\* there, each website document having been written from a validated payload.
MergeKnownPages(stored, source) ==
    [u \in Urls |-> IF stored[u] + source[u] > 0 THEN 1 ELSE 0]

\* Mutant: no page counts as an existing one.
DifferenceIgnored(array, excluded) == array

\* _.difference(): repetitions in the first array stay.
Difference(array, excluded) == [u \in Urls |-> IF u \in excluded THEN 0 ELSE array[u]]

Succeeded(r) == outcome[r] \in {200, 201}

Answered(r) == outcome[r] # 0

PagesOf(w) == {p \in pages : p.website = w}

UrlsOf(ps) == {p.url : p \in ps}

Goto(r, label) == pc' = [pc EXCEPT ![r] = label]

Init ==
    /\ sites = [w \in Websites |-> Absent]
    /\ pages = {}
    /\ op = [r \in Requests |-> [kind |-> "none", id |-> Nowhere, known |-> Empty]]
    /\ pc = [r \in Requests |-> "idle"]
    /\ known = [r \in Requests |-> Empty]
    /\ listed = [r \in Requests |-> {}]
    /\ newPages = [r \in Requests |-> {}]
    /\ pending = [r \in Requests |-> {}]
    /\ outcome = [r \in Requests |-> 0]
    /\ earlier = [r \in Requests |-> {}]
    /\ leftover = [r \in Requests |-> {}]
    /\ overwritten = {}

\* A request passes its validation. A create generates an id that nobody has
\* named before. An update may name an id that no website has, but it can not
\* know a generated one before its website is there.
Receive(r, kind, w, payload) ==
    /\ pc[r] = "idle"
    /\ kind = "create" => \A s \in Requests : op[s].id # w
    /\ kind = "update" => \/ sites[w] # Absent
                          \/ \A s \in Requests : op[s].id = w => op[s].kind = "update"
    /\ op' = [op EXCEPT ![r] = [kind |-> kind, id |-> w, known |-> payload]]
    /\ earlier' = [earlier EXCEPT ![r] = {s \in Requests : Answered(s)}]
    /\ leftover' = [leftover EXCEPT ![r] = UNION {{s} \X pending[s] : s \in earlier'[r]}]
    /\ Goto(r, "site")
    /\ UNCHANGED <<store, known, listed, newPages, pending, outcome>>

-------------------------------------------------------------------------------
\* createOrUpdateWebsite()

\* The website document of r becomes one with these knownPages. The answer
\* gets back to the handler, or it is lost and the handler throws.
WriteSite(r, knownPages) ==
    /\ sites' = [sites EXCEPT ![op[r].id] = knownPages]
    /\ known' = [known EXCEPT ![r] = knownPages]
    /\ \/ Goto(r, "query") /\ UNCHANGED outcome
       \/ Goto(r, "done") /\ outcome' = [outcome EXCEPT ![r] = 500]
    /\ UNCHANGED <<pages, op, listed, newPages, pending, history>>

CreateWebsite(r) ==
    /\ pc[r] = "site"
    /\ op[r].kind = "create"
    /\ WriteSite(r, op[r].known)
    /\ UNCHANGED overwritten

UpdateWebsite(r) ==
    /\ pc[r] = "site"
    /\ op[r].kind = "update"
    /\ sites[op[r].id] # Absent
    /\ WriteSite(r, MergeKnownPages(sites[op[r].id], op[r].known))
    /\ UNCHANGED overwritten

SeeNoWebsite(r) ==
    /\ pc[r] = "site"
    /\ op[r].kind = "update"
    /\ sites[op[r].id] = Absent
    /\ Goto(r, "overwrite")
    /\ UNCHANGED <<store, op, known, listed, newPages, pending, outcome, history>>

OverwriteWebsite(r) ==
    /\ pc[r] = "overwrite"
    /\ WriteSite(r, op[r].known)
    /\ overwritten' = IF sites[op[r].id] = Absent THEN overwritten
                      ELSE overwritten \cup {op[r].id}

-------------------------------------------------------------------------------
\* getPagesForWebsite() and createWebsiteApiResponse(): the query is read in
\* batches. It lists the pages that exist when it starts, and may or may not
\* list those created while it runs.
QueryPages(r) ==
    /\ pc[r] = "query"
    /\ listed' = [listed EXCEPT ![r] = PagesOf(op[r].id)]
    /\ Goto(r, "list")
    /\ UNCHANGED <<store, op, known, newPages, pending, outcome, history>>

\* createNewPages(): the creation of all new pages starts in one go.
ListPages(r) ==
    /\ pc[r] = "list"
    /\ \E late \in SUBSET (PagesOf(op[r].id) \ listed[r]) :
           LET all == listed[r] \cup late
               new == Elements(Difference(known[r], UrlsOf(all)))
           IN  /\ listed' = [listed EXCEPT ![r] = all]
               /\ newPages' = [newPages EXCEPT ![r] = new]
               /\ pending' = [pending EXCEPT ![r] = new]
    /\ Goto(r, "create")
    /\ UNCHANGED <<store, op, known, outcome, history>>

\* Mutant: the page is not tied to its website.
NewPageOfNoWebsite(r, e) == [website |-> Nowhere, url |-> e[1], nth |-> e[2], by |-> r]

\* createPageForWebsite(): every page document gets an id of its own.
NewPage(r, e) == [website |-> op[r].id, url |-> e[1], nth |-> e[2], by |-> r]

CreatePage(r, e) ==
    /\ e \in pending[r]
    /\ pages' = pages \cup {NewPage(r, e)}
    /\ pending' = [pending EXCEPT ![r] = @ \ {e}]
    /\ UNCHANGED <<sites, op, pc, known, listed, newPages, outcome, history,
                   overwritten>>

\* Mutant: the handler waits for all promises to settle, failed or not.
CreatePageFailsSettled(r, e) ==
    /\ e \in pending[r]
    /\ pending' = [pending EXCEPT ![r] = @ \ {e}]
    /\ UNCHANGED <<store, op, pc, known, listed, newPages, outcome, history>>

\* One creation fails, with or without an effect: Promise.all() rejects and the
\* handler throws, the other creations go on.
CreatePageFails(r, e) ==
    /\ e \in pending[r]
    /\ pages' \in {pages, pages \cup {NewPage(r, e)}}
    /\ pending' = [pending EXCEPT ![r] = @ \ {e}]
    /\ Goto(r, "done")
    /\ outcome' = [outcome EXCEPT ![r] = 500]
    /\ UNCHANGED <<sites, op, known, listed, newPages, history, overwritten>>

\* 201 if the website or any page was created.
Respond(r) ==
    /\ pc[r] = "create"
    /\ pending[r] = {}
    /\ outcome' = [outcome EXCEPT
                     ![r] = IF op[r].kind = "create" \/ newPages[r] # {} THEN 201 ELSE 200]
    /\ Goto(r, "done")
    /\ UNCHANGED <<store, op, known, listed, newPages, pending, history>>

\* A call throws without an effect.
CallFails(r) ==
    /\ pc[r] \in {"site", "overwrite", "query", "list"}
    /\ Goto(r, "done")
    /\ outcome' = [outcome EXCEPT ![r] = 500]
    /\ UNCHANGED <<store, op, known, listed, newPages, pending, history>>

\* The host of r stops: what is in flight may be lost with it.
HostStops(r) ==
    /\ pc[r] = "create" \/ pending[r] # {}
    /\ Goto(r, "done")
    /\ outcome' = [outcome EXCEPT ![r] = 500]
    /\ pending' = [pending EXCEPT ![r] = {}]
    /\ UNCHANGED <<store, op, known, listed, newPages, history>>

\* What the event loop does for r.
Handle(r) ==
    \/ CreateWebsite(r)
    \/ UpdateWebsite(r)
    \/ SeeNoWebsite(r)
    \/ OverwriteWebsite(r)
    \/ QueryPages(r)
    \/ ListPages(r)
    \/ \E e \in pending[r] : CreatePage(r, e) \/ CreatePageFails(r, e)
    \/ Respond(r)
    \/ CallFails(r)

Step(r) == Handle(r) \/ HostStops(r)

Next ==
    \E r \in Requests :
        \/ \E kind \in {"create", "update"}, w \in Websites, payload \in Payloads :
               Receive(r, kind, w, payload)
        \/ Step(r)

Spec == Init /\ [][Next]_vars

-------------------------------------------------------------------------------
(***************************************************************************)
(* Properties                                                              *)
(***************************************************************************)
TypeOK ==
    /\ sites \in [Websites -> {Absent} \cup Arrays]
    /\ pages \subseteq [website : Websites, url : Urls, nth : Nat, by : Requests]
    /\ op \in [Requests -> [kind : {"none", "create", "update"},
                           id : Websites \cup {Nowhere}, known : Arrays]]
    /\ pc \in [Requests -> {"idle", "site", "overwrite", "query", "list", "create", "done"}]
    /\ known \in [Requests -> Arrays]
    /\ listed \in [Requests -> SUBSET pages]
    /\ newPages \in [Requests -> SUBSET (Urls \X Nat)]
    /\ pending \in [Requests -> SUBSET (Urls \X Nat)]
    /\ outcome \in [Requests -> {0, 200, 201, 500}]
    /\ earlier \in [Requests -> SUBSET Requests]
    /\ leftover \in [Requests -> SUBSET (Requests \X (Urls \X Nat))]
    /\ overwritten \subseteq Websites

\* An acknowledged POST leaves no known page without a page document: those of
\* its own payload, and those that failed requests before it left over.
AcknowledgedPagesExist ==
    \A r \in Requests : Succeeded(r) =>
        \A u \in Urls : known[r][u] > 0 => u \in UrlsOf(PagesOf(op[r].id))

\* Every page document is of a known page of its website, unless a request
\* that saw no website document wrote over the one that was there.
PagesAreKnown ==
    \A p \in pages :
        \/ sites[p.website] # Absent /\ sites[p.website][p.url] > 0
        \/ p.website \in overwritten

\* The creation that made a page: a request, and an element of its new pages.
CreationOf(p) == <<p.by, <<p.url, p.nth>>>>

\* When r came in, the response of the request that made p had been sent, and
\* the creation of p was not one that was still going on behind it.
SettledBefore(p, r) == p.by \in earlier[r] /\ CreationOf(p) \notin leftover[r]

\* A website has two page documents of the same URL only if one request named
\* the URL twice, or if neither request came in after the response of the
\* other. There is one exception: Promise.all() rejects with the first creation
\* that fails, the others go on behind the error response, and a request that
\* comes in then may create the same pages.
DuplicatesNeedOverlap ==
    \A p, q \in pages :
        p # q /\ p.website = q.website /\ p.url = q.url =>
            IF p.by = q.by
            THEN op[p.by].known[p.url] > 1
            ELSE ~SettledBefore(p, q.by) /\ ~SettledBefore(q, p.by)

\* The pages of an acknowledged POST stay known pages of the website, whatever
\* other requests do, unless the website document was written over.
AcknowledgedPagesStayKnown ==
    \A r \in Requests :
        Succeeded(r) /\ op[r].id \notin overwritten =>
            \A u \in Urls : op[r].known[u] > 0 => sites[op[r].id][u] > 0
===============================================================================
