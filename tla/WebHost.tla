------------------------------- MODULE WebHost -------------------------------
(***************************************************************************)
(* How a process of the function app serves requests                       *)
(* (process-web-request.ts): the first request starts the dispatcher, and  *)
(* every request awaits that one start; then each request sets up a logger *)
(* of its own, and its controller authorizes, validates and handles it.    *)
(* Two controllers are modelled to their end: GET website and POST page.   *)
(*                                                                         *)
(* A document is abstracted to the requests whose update it has taken in.  *)
(* updatePage() acts on it in one step, as DocumentStore promises; nothing *)
(* in the web API deletes a document. The process may stop at any time, as *)
(* it does if the configuration file can not be parsed: that error is      *)
(* thrown in a callback, where nobody catches it.                          *)
(***************************************************************************)
EXTENDS Naturals, FiniteSets

CONSTANTS
    Requests,
    Ids,       \* ids of websites and pages
    MaxPolls,  \* initializationTimeout, in polls of the logger clients
    MaxStops,  \* bound: how often the process stops
    Host,      \* the owner of the global logger
    Absent     \* what is stored under an id that has no document

ASSUME BoundsAssumption == MaxPolls \in Nat \ {0} /\ MaxStops \in Nat

ASSUME HostAssumption == Host \notin Requests

ASSUME AbsentAssumption == \A updates \in SUBSET Requests : updates # Absent

\* A request: what it asks for, whether its token is one that the ACL grants
\* access, and whether it passes the validator of its controller.
Ops == [kind : {"getWebsite", "postPage"}, id : Ids, token : BOOLEAN, valid : BOOLEAN]

\* Loggers: the global one, and one for every request.
Owners == Requests \cup {Host}

Clients == {"appInsights", "console"}

VARIABLES
    stops,       \* how often the process stopped
    dispatcher,  \* globalWebControllerDispatcher: "none", "starting", "flushing",
                 \* "started" or "rejected"
    config,      \* loadConfigPromise: "none", "loading" or "loaded"
    ready,       \* ready[o]: clients of the logger of o that are initialized
    polls,       \* polls[o]: how often its setup() has polled them
    docs,        \* docs[i]: the document i, or Absent
    op,          \* op[r]: the request
    pc,          \* pc[r]: where r is
    response,    \* response[r]: context.res, or "error" if the function throws
    starts,      \* history: calls of start() since the process began
    existed,     \* existed[r]: history, its document was there when r came in
    stray        \* history: updates that were acknowledged and written nowhere

vars == <<stops, dispatcher, config, ready, polls, docs, op, pc, response, starts, existed, stray>>

process == <<stops, dispatcher, config, starts>>

loggers == <<ready, polls>>

database == <<docs, stray>>

request == <<op, existed>>

Init ==
    /\ stops = 0
    /\ dispatcher = "none"
    /\ config = "none"
    /\ ready = [o \in Owners |-> {}]
    /\ polls = [o \in Owners |-> 0]
    /\ docs \in [Ids -> {Absent, {}}]
    /\ op \in [Requests -> Ops]
    /\ pc = [r \in Requests |-> "idle"]
    /\ response = [r \in Requests |-> "none"]
    /\ starts = 0
    /\ existed = [r \in Requests |-> FALSE]
    /\ stray = {}

Goto(r, label) == pc' = [pc EXCEPT ![r] = label] /\ UNCHANGED response

Respond(r, answer) ==
    /\ pc' = [pc EXCEPT ![r] = "done"]
    /\ response' = [response EXCEPT ![r] = answer]

Doc(r) == docs[op[r].id]

-------------------------------------------------------------------------------
(***************************************************************************)
(* The dispatcher                                                          *)
(***************************************************************************)
\* Mutant: the promise is not kept before the dispatcher has started.
IsNilUntilStarted == dispatcher # "started"

IsNil == dispatcher = "none"

\* getGlobalWebControllerDispatcher(): the check and the assignment are one step.
Receive(r) ==
    /\ pc[r] = "idle"
    /\ IF IsNil
       THEN dispatcher' = "starting" /\ starts' = starts + 1
       ELSE UNCHANGED <<dispatcher, starts>>
    /\ existed' = [existed EXCEPT ![r] = Doc(r) # Absent]
    /\ Goto(r, "awaiting")
    /\ UNCHANGED <<stops, config, loggers, database, op>>

\* Is the logger of o in setup()?
InSetup(o) == IF o = Host THEN dispatcher = "starting" ELSE pc[o] = "logger"

\* Mutant: the limit is checked after the clients are polled.
MorePollsAfter(o) == ready[o] # Clients /\ polls[o] <= MaxPolls

MorePolls(o) == ready[o] # Clients /\ polls[o] < MaxPolls

\* initializeClients(): the setup() of every client is called and not awaited. The
\* one of the console asks for the configuration.
Poll(o) ==
    /\ InSetup(o)
    /\ MorePolls(o)
    /\ polls' = [polls EXCEPT ![o] = @ + 1]
    /\ config' = IF config = "none" THEN "loading" ELSE config
    /\ UNCHANGED <<stops, dispatcher, starts, ready, database, request, pc, response>>

ConfigLoads ==
    /\ config = "loading"
    /\ config' = "loaded"
    /\ UNCHANGED <<stops, dispatcher, starts, loggers, database, request, pc, response>>

\* A setup() that was called comes to its end. The client of a request sets up the
\* global client, too, if that is not initialized.
AppInsightsInitializes(o) ==
    /\ polls[o] > 0
    /\ "appInsights" \notin ready[o]
    /\ ready' = [p \in Owners |->
                   IF p \in {o, Host} THEN ready[p] \cup {"appInsights"} ELSE ready[p]]
    /\ UNCHANGED <<process, polls, database, request, pc, response>>

ConsoleInitializes(o) ==
    /\ polls[o] > 0
    /\ "console" \notin ready[o]
    /\ config = "loaded"
    /\ ready' = [ready EXCEPT ![o] = @ \cup {"console"}]
    /\ UNCHANGED <<process, polls, database, request, pc, response>>

\* setup() throws if a client is still missing.
SetupEnds(o) == InSetup(o) /\ ~MorePolls(o)

Initialized(o) == ready[o] = Clients

HostSetupEnds ==
    /\ SetupEnds(Host)
    /\ dispatcher' = IF Initialized(Host) THEN "flushing" ELSE "rejected"
    /\ UNCHANGED <<stops, config, starts, loggers, database, request, pc, response>>

\* start() flushes the telemetry before it returns.
Flush ==
    /\ dispatcher = "flushing"
    /\ dispatcher' = "started"
    /\ UNCHANGED <<stops, config, starts, loggers, database, request, pc, response>>

\* Mutant: the error of a failed start is swallowed, and the promise never settles.
SettledIfStarted == dispatcher = "started"

Settled == dispatcher \in {"started", "rejected"}

\* The promise is settled; a rejection is the answer to all requests from then on.
Resume(r) ==
    /\ pc[r] = "awaiting"
    /\ Settled
    /\ IF dispatcher = "rejected" THEN Respond(r, "error") ELSE Goto(r, "logger")
    /\ UNCHANGED <<process, loggers, database, request>>

\* The process ends, and the requests that it serves with it.
ProcessStops ==
    /\ stops < MaxStops
    /\ stops' = stops + 1
    /\ dispatcher' = "none"
    /\ config' = "none"
    /\ starts' = 0
    /\ ready' = [o \in Owners |-> {}]
    /\ polls' = [o \in Owners |-> 0]
    /\ pc' = [r \in Requests |-> IF pc[r] = "idle" THEN "idle" ELSE "done"]
    /\ response' = [r \in Requests |->
                      IF pc[r] \in {"idle", "done"} THEN response[r] ELSE "error"]
    /\ UNCHANGED <<database, request>>

-------------------------------------------------------------------------------
(***************************************************************************)
(* A request and its controller                                            *)
(***************************************************************************)
RequestSetupEnds(r) ==
    /\ SetupEnds(r)
    /\ IF Initialized(r) THEN Goto(r, "authorize") ELSE Respond(r, "error")
    /\ UNCHANGED <<process, loggers, database, request>>

\* Mutant: the answer "unauthorized" is prepared, and the controller goes on.
AuthorizeAnyway(r) ==
    /\ pc[r] = "authorize"
    /\ Goto(r, "validate")
    /\ UNCHANGED <<process, loggers, database, request>>

\* WebControllerAuth.authorize(): see AclCache for what grants access. Without a list
\* that is valid, a good token is not granted access.
Authorize(r) ==
    /\ pc[r] = "authorize"
    /\ \/ op[r].token /\ Goto(r, "validate")
       \/ Respond(r, "unauthorized")
    /\ UNCHANGED <<process, loggers, database, request>>

\* validateRequest(): the first check that fails gives the answer.
Validate(r) ==
    /\ pc[r] = "validate"
    /\ IF op[r].valid THEN Goto(r, "read") ELSE Respond(r, "refused")
    /\ UNCHANGED <<process, loggers, database, request>>

At(kind, label, r) == op[r].kind = kind /\ pc[r] = label

\* Mutant: the website is taken for missing if it can not be read.
ReadWebsiteOrNotFound(r) ==
    /\ At("getWebsite", "read", r)
    /\ \/ Doc(r) # Absent /\ Goto(r, "query")
       \/ Respond(r, "notFound")
    /\ UNCHANGED <<process, loggers, database, request>>

\* GET website: a status of the read other than 404 is an internal error.
ReadWebsite(r) ==
    /\ At("getWebsite", "read", r)
    /\ \/ IF Doc(r) = Absent THEN Respond(r, "notFound") ELSE Goto(r, "query")
       \/ Respond(r, "internalError")
    /\ UNCHANGED <<process, loggers, database, request>>

QueryPages(r) ==
    /\ At("getWebsite", "query", r)
    /\ Respond(r, "ok")
    /\ UNCHANGED <<process, loggers, database, request>>

\* POST page: whatever the error of the read is, the page was not found.
ReadPage(r) ==
    /\ At("postPage", "read", r)
    /\ \/ Doc(r) # Absent /\ Goto(r, "update")
       \/ Respond(r, "notFound")
    /\ UNCHANGED <<process, loggers, database, request>>

\* updatePage(): MergeNow of DocumentStore, whose answer may be lost.
UpdatePage(r) ==
    /\ At("postPage", "update", r)
    /\ docs' = [docs EXCEPT ![op[r].id] = @ \cup {r}]
    /\ \E answer \in {"ok", "error"} : Respond(r, answer)
    /\ UNCHANGED <<process, loggers, stray, request>>

\* AcknowledgeOnly of DocumentStore: the read before the merge failed.
StrayUpdate(r) ==
    /\ At("postPage", "update", r)
    /\ stray' = stray \cup {r}
    /\ \E answer \in {"ok", "error"} : Respond(r, answer)
    /\ UNCHANGED <<process, loggers, docs, request>>

\* A secret, a document or a query can not be read, or a merge is refused: the error
\* is logged and thrown again.
Throw(r) ==
    /\ \/ pc[r] \in {"authorize", "query", "update"}
       \/ At("getWebsite", "read", r)
    /\ Respond(r, "error")
    /\ UNCHANGED <<process, loggers, database, request>>

\* POST website, or a creation of pages, of other processes.
CreateDoc(i) ==
    /\ docs[i] = Absent
    /\ docs' = [docs EXCEPT ![i] = {}]
    /\ UNCHANGED <<process, loggers, stray, request, pc, response>>

-------------------------------------------------------------------------------
Handle(r) ==
    \/ Resume(r)
    \/ Poll(r)
    \/ RequestSetupEnds(r)
    \/ Authorize(r)
    \/ Validate(r)
    \/ ReadWebsite(r)
    \/ QueryPages(r)
    \/ ReadPage(r)
    \/ UpdatePage(r)
    \/ StrayUpdate(r)
    \/ Throw(r)

Start == Poll(Host) \/ HostSetupEnds \/ Flush

Next ==
    \/ Start
    \/ ConfigLoads
    \/ \E o \in Owners : AppInsightsInitializes(o) \/ ConsoleInitializes(o)
    \/ \E r \in Requests : Receive(r) \/ Handle(r)
    \/ \E i \in Ids : CreateDoc(i)
    \/ ProcessStops

Spec == Init /\ [][Next]_vars

\* Timers fire, calls to services settle, and a flush of telemetry calls back. That
\* the configuration is ever loaded or a client ever initialized is not assumed.
Fairness == WF_vars(Start) /\ \A r \in Requests : WF_vars(Handle(r))

FairSpec == Spec /\ Fairness

-------------------------------------------------------------------------------
(***************************************************************************)
(* Properties                                                              *)
(***************************************************************************)
Served(r) == pc[r] \in {"logger", "authorize", "validate", "read", "query", "update"}

TypeOK ==
    /\ stops \in 0 .. MaxStops
    /\ dispatcher \in {"none", "starting", "flushing", "started", "rejected"}
    /\ config \in {"none", "loading", "loaded"}
    /\ ready \in [Owners -> SUBSET Clients]
    /\ polls \in [Owners -> 0 .. MaxPolls]
    /\ docs \in [Ids -> {Absent} \cup SUBSET Requests]
    /\ op \in [Requests -> Ops]
    /\ pc \in [Requests -> {"idle", "awaiting", "logger", "authorize", "validate", "read",
                           "query", "update", "done"}]
    /\ response \in [Requests -> {"none", "ok", "notFound", "refused", "unauthorized",
                                 "internalError", "error"}]
    /\ \A r \in Requests : response[r] # "none" <=> pc[r] = "done"
    /\ starts \in Nat
    /\ existed \in [Requests -> BOOLEAN]
    /\ stray \subseteq Requests

\* However many requests come in before a process is ready, it starts one dispatcher,
\* and it serves none of them before that one has started with all its logger clients.
ServedAfterOneStart ==
    /\ starts <= 1
    /\ \A r \in Requests : Served(r) => dispatcher = "started" /\ Initialized(Host)

\* Answers and documents agree: an update that was acknowledged is in its page, unless
\* it was written to a stray document; a page has updates only of requests that were
\* granted access and are valid, whatever they were told; and GET tells nobody that a
\* website is missing which was there when the request came in.
AnswersAreTrue ==
    \A r \in Requests :
        /\ op[r].kind = "postPage" /\ response[r] = "ok" =>
               r \in stray \/ (Doc(r) # Absent /\ r \in Doc(r))
        /\ (Doc(r) # Absent /\ r \in Doc(r)) \/ r \in stray => op[r].token /\ op[r].valid
        /\ op[r].kind = "getWebsite" /\ response[r] = "notFound" => ~existed[r]

\* Every request is answered: a configuration that does not load, and clients that are
\* never initialized, hold it up no longer than the initialization timeouts.
EveryRequestAnswered == \A r \in Requests : pc[r] = "awaiting" ~> pc[r] = "done"
==============================================================================
