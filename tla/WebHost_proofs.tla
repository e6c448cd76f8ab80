---------------------------- MODULE WebHost_proofs ----------------------------
(***************************************************************************)
(* Proofs about WebHost: that a process starts one dispatcher and serves   *)
(* nobody before it has started, and that answers and documents agree. The *)
(* invariant adds what each request has passed when it has come so far.    *)
(* And that no request waits in vain: what is true of each step for the    *)
(* requests to be answered, if the steps are taken.                        *)
(***************************************************************************)
EXTENDS WebHost, TLAPS

\* The promise of the dispatcher is the trace of the one start there was.
OneStart ==
    /\ dispatcher = "none" => starts = 0
    /\ starts <= 1
    /\ dispatcher \in {"flushing", "started"} => Initialized(Host)
    /\ \A r \in Requests : Served(r) => dispatcher = "started"

\* Whoever handles a request has let it pass before.
Admitted ==
    \A r \in Requests :
        /\ pc[r] \in {"validate", "read", "query", "update"} => op[r].token
        /\ pc[r] \in {"read", "query", "update"} => op[r].valid

\* No document is deleted: it is there from when it was first seen.
DocsStay ==
    \A r \in Requests : existed[r] \/ pc[r] = "update" => Doc(r) # Absent

IInv == TypeOK /\ OneStart /\ Admitted /\ DocsStay /\ AnswersAreTrue

-------------------------------------------------------------------------------
LEMMA OpFields ==
    ASSUME TypeOK, NEW r \in Requests
    PROVE  /\ op[r].kind \in {"getWebsite", "postPage"} /\ op[r].id \in Ids
           /\ op[r].token \in BOOLEAN /\ op[r].valid \in BOOLEAN
BY DEF TypeOK, Ops

\* A request goes on, or is answered, and nothing else happens: what it has to have
\* passed for its new place, and what may be answered.
LEMMA Moving ==
    ASSUME IInv, NEW r \in Requests, NEW label, NEW answer,
           pc' = [pc EXCEPT ![r] = label], response' = [response EXCEPT ![r] = answer],
           UNCHANGED <<process, loggers, database, request>>,
           label \in {"awaiting", "logger", "authorize", "validate", "read", "query", "update",
                      "done"},
           answer \in {"none", "ok", "notFound", "refused", "unauthorized", "internalError",
                       "error"},
           answer # "none" <=> label = "done",
           label \notin {"awaiting", "done"} => dispatcher = "started",
           label \in {"validate", "read", "query", "update"} => op[r].token,
           label \in {"read", "query", "update"} => op[r].valid,
           label = "update" => Doc(r) # Absent,
           answer = "ok" => op[r].kind = "getWebsite",
           answer = "notFound" => op[r].kind = "postPage" \/ Doc(r) = Absent
    PROVE  IInv'
<1> USE DEF IInv
<1>1. UNCHANGED <<stops, dispatcher, config, starts, ready, polls, docs, stray, op, existed>>
    BY DEF process, loggers, database, request
<1>2. /\ pc'[r] = label /\ response'[r] = answer
      /\ \A q \in Requests : q # r => pc'[q] = pc[q] /\ response'[q] = response[q]
    BY DEF TypeOK
<1>3. /\ pc' \in [Requests -> {"idle", "awaiting", "logger", "authorize", "validate", "read",
                              "query", "update", "done"}]
      /\ response' \in [Requests -> {"none", "ok", "notFound", "refused", "unauthorized",
                                    "internalError", "error"}]
    BY DEF TypeOK
<1>4. \A q \in Requests : response'[q] # "none" <=> pc'[q] = "done"
    BY <1>2 DEF TypeOK
<1>5. TypeOK'
    BY <1>1, <1>3, <1>4 DEF TypeOK
<1>6. OneStart'
    BY <1>1, <1>2 DEF OneStart, Served, Initialized
<1>7. Admitted'
    BY <1>1, <1>2 DEF Admitted
<1>8. DocsStay'
    BY <1>1, <1>2 DEF DocsStay, Doc
<1>9. AnswersAreTrue'
    <2> SUFFICES ASSUME NEW q \in Requests
                 PROVE  /\ op[q].kind = "postPage" /\ response'[q] = "ok" =>
                               q \in stray \/ (Doc(q) # Absent /\ q \in Doc(q))
                        /\ (Doc(q) # Absent /\ q \in Doc(q)) \/ q \in stray =>
                               op[q].token /\ op[q].valid
                        /\ op[q].kind = "getWebsite" /\ response'[q] = "notFound" => ~existed[q]
        BY <1>1 DEF AnswersAreTrue, Doc
    <2>1. CASE q = r
        BY <1>2, <2>1, OpFields DEF AnswersAreTrue, DocsStay
    <2>2. CASE q # r
        BY <1>2, <2>2 DEF AnswersAreTrue
    <2> QED BY <2>1, <2>2
<1> QED BY <1>5, <1>6, <1>7, <1>8, <1>9

\* The two forms that a step of a request takes (web-controller.ts, lines 40-51).
LEMMA Going ==
    ASSUME TypeOK, NEW r \in Requests, NEW label, Goto(r, label), pc[r] # "done"
    PROVE  /\ pc' = [pc EXCEPT ![r] = label]
           /\ response' = [response EXCEPT ![r] = "none"]
<1>1. response[r] = "none" /\ response \in [Requests -> {"none", "ok", "notFound", "refused",
                                                "unauthorized", "internalError", "error"}]
    BY DEF TypeOK
<1> QED BY <1>1 DEF Goto

LEMMA InitInv == Init => IInv
<1> SUFFICES ASSUME Init PROVE IInv
    OBVIOUS
<1>1. TypeOK
    BY BoundsAssumption, SMT DEF Init, TypeOK
<1>2. OneStart
    <2>1. starts = 0 /\ starts <= 1
        BY SMT DEF Init
    <2> QED BY <2>1 DEF Init, OneStart, Served
<1>4. Admitted /\ DocsStay
    BY DEF Init, Admitted, DocsStay
<1>3. AnswersAreTrue
    <2>1. \A r \in Requests : /\ Doc(r) \in {Absent, {}} /\ response[r] = "none"
                              /\ stray = {}
        BY <1>1, OpFields DEF Init, Doc
    <2> QED BY <2>1 DEF AnswersAreTrue
<1> QED BY <1>1, <1>2, <1>3, <1>4 DEF IInv

-------------------------------------------------------------------------------
\* Steps of the process and its surroundings.

\* The first request starts the dispatcher (get-global-web-controller-dispatcher.ts,
\* lines 10-16).
LEMMA ReceiveStep == ASSUME IInv, NEW r \in Requests, Receive(r) PROVE IInv'
<1> USE DEF IInv
<1>1. /\ pc[r] = "idle" /\ pc' = [pc EXCEPT ![r] = "awaiting"]
      /\ \/ dispatcher = "none" /\ dispatcher' = "starting" /\ starts' = starts + 1
         \/ dispatcher # "none" /\ UNCHANGED <<dispatcher, starts>>
      /\ existed' = [existed EXCEPT ![r] = Doc(r) # Absent]
      /\ UNCHANGED <<stops, config, ready, polls, docs, stray, op, response>>
    BY DEF Receive, IsNil, Goto, loggers, database
<1>2. /\ pc'[r] = "awaiting" /\ existed'[r] = (Doc(r) # Absent)
      /\ \A q \in Requests : q # r => pc'[q] = pc[q] /\ existed'[q] = existed[q]
      /\ existed' \in [Requests -> BOOLEAN]
    BY <1>1 DEF TypeOK
<1>3. starts' \in Nat /\ starts' <= 1 /\ (dispatcher' = "none" => starts' = 0)
    BY <1>1, SMT DEF OneStart, TypeOK
<1>4. TypeOK'
    <2>1. \A q \in Requests : response'[q] # "none" <=> pc'[q] = "done"
        BY <1>1, <1>2 DEF TypeOK
    <2> QED BY <1>1, <1>2, <1>3, <2>1 DEF TypeOK
<1>5. OneStart'
    <2>1. dispatcher' \in {"flushing", "started"} => dispatcher' = dispatcher
        BY <1>1
    <2>2. \A q \in Requests : Served(q)' => Served(q)
        BY <1>1, <1>2 DEF Served
    <2>3. dispatcher = "started" => dispatcher' = "started"
        BY <1>1
    <2> QED BY <1>1, <1>3, <2>1, <2>2, <2>3 DEF OneStart, Initialized
<1>6. Admitted'
    BY <1>1, <1>2 DEF Admitted
<1>7. DocsStay'
    BY <1>1, <1>2 DEF DocsStay, Doc
<1>8. AnswersAreTrue'
    <2>1. response[r] = "none"
        BY <1>1 DEF TypeOK
    <2> QED BY <1>1, <1>2, <2>1 DEF AnswersAreTrue, Doc
<1> QED BY <1>4, <1>5, <1>6, <1>7, <1>8

\* The clients of a logger are set up, and found initialized (logger.ts, lines 108-123).
LEMMA LoggerStep ==
    ASSUME IInv, NEW o \in Owners,
           Poll(o) \/ AppInsightsInitializes(o) \/ ConsoleInitializes(o) \/ ConfigLoads
    PROVE  IInv'
<1> USE DEF IInv
<1>1. UNCHANGED <<stops, dispatcher, starts, docs, stray, op, existed, pc, response>>
    BY DEF Poll, AppInsightsInitializes, ConsoleInitializes, ConfigLoads, process, database, request
<1>2. /\ config' \in {"none", "loading", "loaded"}
      /\ ready' \in [Owners -> SUBSET Clients]
      /\ \A p \in Owners : ready[p] \subseteq ready'[p]
      /\ polls' \in [Owners -> 0 .. MaxPolls]
    <2>1. CASE Poll(o)
        BY <2>1, BoundsAssumption, SMT DEF Poll, MorePolls, TypeOK, loggers
    <2>2. CASE AppInsightsInitializes(o)
        BY <2>2 DEF AppInsightsInitializes, TypeOK, Clients, process
    <2>3. CASE ConsoleInitializes(o)
        BY <2>3 DEF ConsoleInitializes, TypeOK, Clients, process
    <2>4. CASE ConfigLoads
        BY <2>4 DEF ConfigLoads, TypeOK, loggers
    <2> QED BY <2>1, <2>2, <2>3, <2>4
<1>3. TypeOK'
    BY <1>1, <1>2 DEF TypeOK
<1>4. OneStart'
    <2>1. Host \in Owners
        BY DEF Owners
    <2>2. ready[Host] = Clients => ready'[Host] = Clients
        BY <1>2, <2>1
    <2> QED BY <1>1, <2>2 DEF OneStart, Initialized, Served
<1>5. Admitted' /\ DocsStay' /\ AnswersAreTrue'
    BY <1>1 DEF Admitted, DocsStay, AnswersAreTrue, Doc
<1> QED BY <1>3, <1>4, <1>5

\* The start of the dispatcher goes on (process-entry-point-base.ts, lines 14-41).
LEMMA StartStep == ASSUME IInv, HostSetupEnds \/ Flush PROVE IInv'
<1> USE DEF IInv
<1>1. /\ dispatcher \in {"starting", "flushing"}
      /\ dispatcher' \in {"flushing", "started", "rejected"}
      /\ dispatcher' # "rejected" => Initialized(Host)
      /\ UNCHANGED <<stops, config, starts, ready, polls, docs, stray, op, existed, pc, response>>
    BY HostAssumption DEF HostSetupEnds, Flush, SetupEnds, InSetup, OneStart, loggers, database,
                          request
<1>2. TypeOK'
    BY <1>1 DEF TypeOK
<1>3. OneStart'
    BY <1>1 DEF OneStart, Initialized, Served
<1>4. Admitted' /\ DocsStay' /\ AnswersAreTrue'
    BY <1>1 DEF Admitted, DocsStay, AnswersAreTrue, Doc
<1> QED BY <1>2, <1>3, <1>4

\* A process that stops takes its requests and its promises with it.
LEMMA ProcessStopsStep == ASSUME IInv, ProcessStops PROVE IInv'
<1> USE DEF IInv
<1>1. /\ stops < MaxStops /\ stops' = stops + 1
      /\ dispatcher' = "none" /\ config' = "none" /\ starts' = 0
      /\ ready' = [o \in Owners |-> {}] /\ polls' = [o \in Owners |-> 0]
      /\ UNCHANGED <<docs, stray, op, existed>>
    BY DEF ProcessStops, database, request
<1>2. /\ pc' = [r \in Requests |-> IF pc[r] = "idle" THEN "idle" ELSE "done"]
      /\ response' = [r \in Requests |->
                        IF pc[r] \in {"idle", "done"} THEN response[r] ELSE "error"]
    BY DEF ProcessStops
<1>3. \A r \in Requests :
          /\ pc'[r] \in {"idle", "done"}
          /\ response'[r] # "none" <=> pc'[r] = "done"
          /\ response'[r] \in {response[r], "error"}
    BY <1>2 DEF TypeOK
<1>4. TypeOK'
    <2>1. stops' \in 0 .. MaxStops /\ polls' \in [Owners -> 0 .. MaxPolls] /\ starts' \in Nat
        BY <1>1, BoundsAssumption, SMT DEF TypeOK
    <2>2. /\ pc' \in [Requests -> {"idle", "awaiting", "logger", "authorize", "validate", "read",
                                  "query", "update", "done"}]
          /\ response' \in [Requests -> {"none", "ok", "notFound", "refused", "unauthorized",
                                        "internalError", "error"}]
        BY <1>2, <1>3 DEF TypeOK
    <2> QED BY <1>1, <1>3, <2>1, <2>2 DEF TypeOK
<1>5. OneStart'
    BY <1>1, <1>3, SMT DEF OneStart, Served
<1>6. Admitted' /\ DocsStay'
    BY <1>1, <1>3 DEF Admitted, DocsStay, Doc
<1>7. AnswersAreTrue'
    BY <1>1, <1>3 DEF AnswersAreTrue, Doc
<1> QED BY <1>4, <1>5, <1>6, <1>7

\* A document is created by another process (page-provider.ts, lines 21-30).
LEMMA CreateDocStep == ASSUME IInv, NEW i \in Ids, CreateDoc(i) PROVE IInv'
<1> USE DEF IInv
<1>1. /\ docs[i] = Absent /\ docs' = [docs EXCEPT ![i] = {}] /\ {} # Absent
      /\ UNCHANGED <<stops, dispatcher, config, starts, ready, polls, stray, op, existed, pc,
                     response>>
    BY AbsentAssumption DEF CreateDoc, process, loggers, request
<1>2. docs'[i] = {} /\ \A j \in Ids : j # i => docs'[j] = docs[j]
    BY <1>1 DEF TypeOK
<1>3. \A r \in Requests : /\ Doc(r) # Absent => Doc(r)' = Doc(r)
                          /\ Doc(r) = Absent => Doc(r)' \in {Absent, {}}
    BY <1>1, <1>2, OpFields DEF Doc
<1>4. TypeOK'
    BY <1>1, <1>2 DEF TypeOK
<1>5. OneStart' /\ Admitted'
    BY <1>1 DEF OneStart, Initialized, Served, Admitted
<1>6. DocsStay'
    BY <1>1, <1>3 DEF DocsStay
<1>7. AnswersAreTrue'
    <2>1. \A r \in Requests : Doc(r)' # Absent /\ r \in Doc(r)' <=> Doc(r) # Absent /\ r \in Doc(r)
        BY <1>3
    <2> QED BY <1>1, <2>1 DEF AnswersAreTrue
<1> QED BY <1>4, <1>5, <1>6, <1>7

-------------------------------------------------------------------------------
\* Steps of a request.

\* Awaiting the dispatcher, the logger, the decision, the validators: each lets a
\* request go on or answers it (web-controller.ts, lines 32-56).
LEMMA PassStep ==
    ASSUME IInv, NEW r \in Requests,
           Resume(r) \/ RequestSetupEnds(r) \/ Authorize(r) \/ Validate(r)
    PROVE  IInv'
<1> USE DEF IInv
<1>1. /\ pc[r] \in {"awaiting", "logger", "authorize", "validate"}
      /\ UNCHANGED <<process, loggers, database, request>>
      /\ \/ \E label \in {"logger", "authorize", "validate", "read"} :
                /\ Goto(r, label)
                /\ dispatcher = "started"
                /\ label \in {"validate", "read"} => op[r].token
                /\ label = "read" => op[r].valid
         \/ \E answer \in {"error", "unauthorized", "refused"} : Respond(r, answer)
    <2>1. CASE Resume(r)
        BY <2>1 DEF Resume, Settled
    <2>2. CASE RequestSetupEnds(r)
        <3>1. pc[r] = "logger"
            BY <2>2, HostAssumption DEF RequestSetupEnds, SetupEnds, InSetup
        <3>2. dispatcher = "started"
            BY <3>1 DEF OneStart, Served
        <3> QED BY <2>2, <3>1, <3>2 DEF RequestSetupEnds
    <2>3. CASE Authorize(r)
        <3>1. dispatcher = "started"
            BY <2>3 DEF Authorize, OneStart, Served
        <3> QED BY <2>3, <3>1 DEF Authorize
    <2>4. CASE Validate(r)
        <3>1. dispatcher = "started" /\ op[r].token
            BY <2>4 DEF Validate, OneStart, Served, Admitted
        <3> QED BY <2>4, <3>1 DEF Validate
    <2> QED BY <2>1, <2>2, <2>3, <2>4
<1>2. ASSUME NEW label \in {"logger", "authorize", "validate", "read"}, Goto(r, label),
             dispatcher = "started",
             label \in {"validate", "read"} => op[r].token,
             label = "read" => op[r].valid
      PROVE  IInv'
    <2>1. pc' = [pc EXCEPT ![r] = label] /\ response' = [response EXCEPT ![r] = "none"]
        BY <1>1, <1>2, Going
    <2> QED BY <1>1, <1>2, <2>1, Moving
<1>3. ASSUME NEW answer \in {"error", "unauthorized", "refused"}, Respond(r, answer)
      PROVE  IInv'
    <2>1. pc' = [pc EXCEPT ![r] = "done"] /\ response' = [response EXCEPT ![r] = answer]
        BY <1>3 DEF Respond
    <2> QED BY <1>1, <1>3, <2>1, Moving
<1> QED BY <1>1, <1>2, <1>3

\* The controllers read a document, query, and answer (get-website-controller.ts, lines
\* 30-56; post-page-controller.ts, lines 31-44).
LEMMA ReadStep ==
    ASSUME IInv, NEW r \in Requests,
           ReadWebsite(r) \/ QueryPages(r) \/ ReadPage(r) \/ Throw(r)
    PROVE  IInv'
<1> USE DEF IInv
<1>1. /\ pc[r] \in {"authorize", "read", "query", "update"}
      /\ UNCHANGED <<process, loggers, database, request>>
      /\ \/ /\ pc[r] = "read" /\ Doc(r) # Absent
            /\ \E label \in {"query", "update"} : Goto(r, label)
         \/ \E answer \in {"notFound", "internalError", "error", "ok"} :
                /\ Respond(r, answer)
                /\ answer = "notFound" => op[r].kind = "postPage" \/ Doc(r) = Absent
                /\ answer = "ok" => op[r].kind = "getWebsite"
    BY DEF ReadWebsite, QueryPages, ReadPage, Throw, At
<1>2. ASSUME pc[r] = "read", Doc(r) # Absent, NEW label \in {"query", "update"}, Goto(r, label)
      PROVE  IInv'
    <2>1. pc' = [pc EXCEPT ![r] = label] /\ response' = [response EXCEPT ![r] = "none"]
        BY <1>2, Going
    <2>2. dispatcher = "started" /\ op[r].token /\ op[r].valid
        BY <1>2 DEF OneStart, Served, Admitted
    <2> QED BY <1>1, <1>2, <2>1, <2>2, Moving
<1>3. ASSUME NEW answer \in {"notFound", "internalError", "error", "ok"}, Respond(r, answer),
             answer = "notFound" => op[r].kind = "postPage" \/ Doc(r) = Absent,
             answer = "ok" => op[r].kind = "getWebsite"
      PROVE  IInv'
    <2>1. pc' = [pc EXCEPT ![r] = "done"] /\ response' = [response EXCEPT ![r] = answer]
        BY <1>3 DEF Respond
    <2> QED BY <1>1, <1>3, <2>1, Moving
<1> QED BY <1>1, <1>2, <1>3

\* An update is taken in by its page, or by a document nobody asked for, before it is
\* acknowledged (post-page-controller.ts, lines 46-53).
LEMMA UpdateStep ==
    ASSUME IInv, NEW r \in Requests, UpdatePage(r) \/ StrayUpdate(r)
    PROVE  IInv'
<1> USE DEF IInv
<1>1. /\ pc[r] = "update" /\ op[r].kind = "postPage"
      /\ \/ docs' = [docs EXCEPT ![op[r].id] = @ \cup {r}] /\ stray' = stray
         \/ docs' = docs /\ stray' = stray \cup {r}
      /\ UNCHANGED <<stops, dispatcher, config, starts, ready, polls, op, existed>>
    BY DEF UpdatePage, StrayUpdate, At, process, loggers, request
<1>2. PICK answer \in {"ok", "error"} :
          pc' = [pc EXCEPT ![r] = "done"] /\ response' = [response EXCEPT ![r] = answer]
    BY DEF UpdatePage, StrayUpdate, Respond
<1>3. /\ pc'[r] = "done" /\ response'[r] = answer
      /\ \A q \in Requests : q # r => pc'[q] = pc[q] /\ response'[q] = response[q]
      /\ pc' \in [Requests -> {"idle", "awaiting", "logger", "authorize", "validate", "read",
                              "query", "update", "done"}]
      /\ response' \in [Requests -> {"none", "ok", "notFound", "refused", "unauthorized",
                                    "internalError", "error"}]
    BY <1>2 DEF TypeOK
<1>4. op[r].id \in Ids /\ op[r].token /\ op[r].valid /\ Doc(r) # Absent /\ Doc(r) \subseteq Requests
    BY <1>1, OpFields DEF Admitted, DocsStay, Doc, TypeOK
<1>5. /\ docs' \in [Ids -> {Absent} \cup SUBSET Requests]
      /\ \A i \in Ids : \/ docs'[i] = docs[i]
                        \/ i = op[r].id /\ docs'[i] = docs[i] \cup {r}
    BY <1>1, <1>4 DEF TypeOK, Doc
<1>6. \A i \in Ids : docs[i] # Absent => docs'[i] # Absent /\ docs[i] \subseteq docs'[i]
    <2> SUFFICES ASSUME NEW i \in Ids, docs[i] # Absent
                 PROVE  docs'[i] # Absent /\ docs[i] \subseteq docs'[i]
        OBVIOUS
    <2>1. docs[i] \in SUBSET Requests /\ docs[i] \cup {r} \in SUBSET Requests
        BY DEF TypeOK
    <2> QED BY <1>5, <2>1, AbsentAssumption
<1>7. TypeOK'
    <2>1. \A q \in Requests : response'[q] # "none" <=> pc'[q] = "done"
        BY <1>3 DEF TypeOK
    <2>2. stray' \subseteq Requests
        BY <1>1 DEF TypeOK
    <2> QED BY <1>1, <1>3, <1>5, <2>1, <2>2 DEF TypeOK
<1>8. OneStart'
    BY <1>1, <1>3 DEF OneStart, Served, Initialized
<1>9. Admitted'
    BY <1>1, <1>3 DEF Admitted
<1>10. DocsStay'
    BY <1>1, <1>3, <1>6, OpFields DEF DocsStay, Doc
<1>11. AnswersAreTrue'
    <2> SUFFICES ASSUME NEW q \in Requests
                 PROVE  /\ op[q].kind = "postPage" /\ response'[q] = "ok" =>
                               q \in stray' \/ (Doc(q)' # Absent /\ q \in Doc(q)')
                        /\ (Doc(q)' # Absent /\ q \in Doc(q)') \/ q \in stray' =>
                               op[q].token /\ op[q].valid
                        /\ op[q].kind = "getWebsite" /\ response'[q] = "notFound" => ~existed[q]
        BY <1>1 DEF AnswersAreTrue, Doc
    <2>1. op[q].id \in Ids /\ Doc(q) = docs[op[q].id] /\ Doc(q)' = docs'[op[q].id]
        BY <1>1, OpFields DEF Doc
    <2>2. CASE q = r
        <3>1. r \in stray' \/ (Doc(r)' # Absent /\ r \in Doc(r)')
            <4>1. CASE docs' = docs /\ stray' = stray \cup {r}
                BY <4>1
            <4>2. CASE docs' = [docs EXCEPT ![op[r].id] = @ \cup {r}]
                <5>1. docs'[op[r].id] = docs[op[r].id] \cup {r}
                    BY <1>4, <4>2 DEF TypeOK
                <5>2. docs'[op[r].id] # Absent /\ r \in docs'[op[r].id]
                    BY <1>4, <1>6, <5>1 DEF Doc
                <5> QED BY <2>1, <2>2, <5>2
            <4> QED BY <1>1, <4>1, <4>2
        <3> QED BY <1>1, <1>4, <2>2, <3>1
    <2>3. CASE q # r
        <3>1. \/ Doc(q)' = Doc(q)
              \/ Doc(q) # Absent /\ Doc(q)' = Doc(q) \cup {r}
            BY <1>4, <1>5, <2>1 DEF Doc
        <3>2. Doc(q) # Absent => Doc(q)' # Absent /\ Doc(q) \subseteq Doc(q)'
            BY <1>6, <2>1
        <3>3. q \in stray' <=> q \in stray
            BY <1>1, <2>3
        <3>4. response'[q] = response[q]
            BY <1>3, <2>3
        <3> QED BY <2>3, <3>1, <3>2, <3>3, <3>4 DEF AnswersAreTrue
    <2> QED BY <2>2, <2>3
<1> QED BY <1>7, <1>8, <1>9, <1>10, <1>11

\* Every step keeps the invariant.
LEMMA NextInv == IInv /\ [Next]_vars => IInv'
<1> SUFFICES ASSUME IInv, [Next]_vars PROVE IInv'
    OBVIOUS
<1>1. ASSUME NEW o \in Owners,
             Poll(o) \/ AppInsightsInitializes(o) \/ ConsoleInitializes(o) \/ ConfigLoads
      PROVE  IInv'
    BY <1>1, LoggerStep
<1>2. Host \in Owners /\ Requests \subseteq Owners
    BY DEF Owners
<1>3. CASE Start
    BY <1>1, <1>2, <1>3, StartStep DEF Start
<1>4. CASE ConfigLoads
    BY <1>1, <1>2, <1>4
<1>5. CASE \E o \in Owners : AppInsightsInitializes(o) \/ ConsoleInitializes(o)
    BY <1>1, <1>5
<1>6. ASSUME NEW r \in Requests, Receive(r) PROVE IInv'
    BY <1>6, ReceiveStep
<1>7. ASSUME NEW r \in Requests, Handle(r) PROVE IInv'
    <2>1. CASE Poll(r)
        BY <1>1, <1>2, <2>1
    <2>2. CASE Resume(r) \/ RequestSetupEnds(r) \/ Authorize(r) \/ Validate(r)
        BY <2>2, PassStep
    <2>3. CASE ReadWebsite(r) \/ QueryPages(r) \/ ReadPage(r) \/ Throw(r)
        BY <2>3, ReadStep
    <2>4. CASE UpdatePage(r) \/ StrayUpdate(r)
        BY <2>4, UpdateStep
    <2> QED BY <1>7, <2>1, <2>2, <2>3, <2>4 DEF Handle
<1>8. CASE \E i \in Ids : CreateDoc(i)
    BY <1>8, CreateDocStep
<1>9. CASE ProcessStops
    BY <1>9, ProcessStopsStep
<1>10. CASE UNCHANGED vars
    <2>1. UNCHANGED <<stops, dispatcher, config, ready, polls, docs, op, pc, response, starts,
                      existed, stray>>
        BY <1>10 DEF vars
    <2>2. TypeOK' /\ OneStart'
        BY <2>1 DEF IInv, TypeOK, OneStart, Served, Initialized
    <2>3. Admitted' /\ DocsStay' /\ AnswersAreTrue'
        BY <2>1 DEF IInv, Admitted, DocsStay, AnswersAreTrue, Doc
    <2> QED BY <2>2, <2>3 DEF IInv
<1> QED BY <1>3, <1>4, <1>5, <1>6, <1>7, <1>8, <1>9, <1>10 DEF Next

LEMMA Invariance == Spec => []IInv
<1> QED BY InitInv, NextInv, PTL DEF Spec

-------------------------------------------------------------------------------
\* Every reachable state is well typed: exactly the requests that are done have an
\* answer.
THEOREM TypeCorrect == Spec => []TypeOK
<1>1. IInv => TypeOK
    BY DEF IInv
<1> QED BY <1>1, Invariance, PTL

\* A process starts one dispatcher, and serves no request before that has started with
\* all its logger clients (get-global-web-controller-dispatcher.ts, lines 10-16).
THEOREM OneStartServesAll == Spec => []ServedAfterOneStart
<1>1. IInv => ServedAfterOneStart
    BY DEF IInv, OneStart, ServedAfterOneStart
<1> QED BY <1>1, Invariance, PTL

\* For any number of requests and processes that stop: acknowledged updates are taken
\* in, documents have updates of admitted requests only, and no website that was there
\* is missing (post-page-controller.ts, lines 31-53; get-website-controller.ts, lines
\* 30-46).
THEOREM AnswersStayTrue == Spec => []AnswersAreTrue
<1>1. IInv => AnswersAreTrue
    BY DEF IInv
<1> QED BY <1>1, Invariance, PTL

-------------------------------------------------------------------------------
(***************************************************************************)
(* What makes every request be answered: one that is in hand always has a  *)
(* next step, or waits for a start that has one, and the steps lead on.    *)
(***************************************************************************)
InHand(r) == pc[r] \notin {"idle", "done"}

\* Whoever waits for the dispatcher waits for a start that was made, and each controller
\* has requests of its own kind.
NotStranded ==
    \A r \in Requests :
        /\ pc[r] = "awaiting" => dispatcher # "none"
        /\ pc[r] = "query" => op[r].kind = "getWebsite"
        /\ pc[r] = "update" => op[r].kind = "postPage"

\* What the start, and the handler of r, can do next if nothing fails.
StartGoesOn == dispatcher \in {"starting", "flushing"}

HandlerGoesOn(r) ==
    \/ pc[r] = "awaiting" /\ Settled
    \/ pc[r] \in {"logger", "authorize", "validate"}
    \/ At("getWebsite", "read", r) \/ At("getWebsite", "query", r)
    \/ At("postPage", "read", r) \/ At("postPage", "update", r)

GoesOn(r) == HandlerGoesOn(r) \/ (pc[r] = "awaiting" /\ StartGoesOn)

\* The stages of a request, and of the start
Stages ==
    [idle |-> 0, awaiting |-> 1, logger |-> 2, authorize |-> 3, validate |-> 4, read |-> 5,
     query |-> 6, update |-> 6, done |-> 7]

StartStages == [none |-> 0, starting |-> 1, flushing |-> 2, started |-> 3, rejected |-> 3]

Advances(r) == Stages[pc[r]] < Stages[pc'[r]]

StartAdvances == StartStages[dispatcher] < StartStages[dispatcher']

PollsAgain(o) == InSetup(o) /\ polls'[o] = polls[o] + 1

\* Requests go forward, whatever happens; and the start does until the process stops.
Onward ==
    /\ \A r \in Requests : pc'[r] = pc[r] \/ Advances(r)
    /\ stops' = stops => dispatcher' = dispatcher \/ StartAdvances
    /\ stops' = stops => \A o \in Owners : polls'[o] = polls[o] \/ PollsAgain(o)

\* A handler, and the start, get on with each of their steps.
EachStepCounts ==
    /\ \A r \in Requests : Handle(r) => Advances(r) \/ PollsAgain(r)
    /\ Start => StartAdvances \/ PollsAgain(Host)

LEMMA PlaceKnown ==
    ASSUME TypeOK, NEW r \in Requests
    PROVE  pc[r] \in {"idle", "awaiting", "logger", "authorize", "validate", "read",
                      "query", "update", "done"}
BY DEF TypeOK

\* A step of a handler that is no poll: to where it takes its request.
LEMMA HandlerMoves ==
    ASSUME TypeOK, NEW r \in Requests, Handle(r), ~Poll(r)
    PROVE  \E label \in {"logger", "authorize", "validate", "read", "query", "update", "done"} :
              /\ pc' = [pc EXCEPT ![r] = label]
              /\ Stages[pc[r]] < Stages[label]
              /\ label = "query" => op[r].kind = "getWebsite"
              /\ label = "update" => op[r].kind = "postPage"
              /\ UNCHANGED <<stops, dispatcher, config, polls, op>>
<1> USE DEF Goto, Respond, process, loggers, database, request, Stages
<1>1. CASE Resume(r)
    BY <1>1 DEF Resume
<1>2. CASE RequestSetupEnds(r)
    <2>1. r # Host
        BY HostAssumption
    <2> QED BY <1>2, <2>1 DEF RequestSetupEnds, SetupEnds, InSetup
<1>3. CASE Authorize(r)
    BY <1>3 DEF Authorize
<1>4. CASE Validate(r)
    BY <1>4 DEF Validate
<1>5. CASE ReadWebsite(r)
    BY <1>5 DEF ReadWebsite, At
<1>6. CASE QueryPages(r)
    BY <1>6 DEF QueryPages, At
<1>7. CASE ReadPage(r)
    BY <1>7 DEF ReadPage, At
<1>8. CASE UpdatePage(r) \/ StrayUpdate(r)
    BY <1>8 DEF UpdatePage, StrayUpdate, At
<1>9. CASE Throw(r)
    BY <1>9 DEF Throw, At
<1> QED BY <1>1, <1>2, <1>3, <1>4, <1>5, <1>6, <1>7, <1>8, <1>9 DEF Handle

LEMMA PollCounts ==
    ASSUME TypeOK, NEW o \in Owners, Poll(o)
    PROVE  /\ PollsAgain(o) /\ \A p \in Owners : p # o => polls'[p] = polls[p]
           /\ UNCHANGED <<stops, dispatcher, op, pc>>
BY DEF Poll, PollsAgain, TypeOK, request

\* A step that concerns neither a handler nor the start leaves both as they were.
LEMMA OthersWait ==
    ASSUME TypeOK,
           \/ ConfigLoads \/ (\E i \in Ids : CreateDoc(i)) \/ UNCHANGED vars
           \/ \E o \in Owners : AppInsightsInitializes(o) \/ ConsoleInitializes(o)
    PROVE  UNCHANGED <<stops, dispatcher, polls, op, pc>>
BY DEF ConfigLoads, CreateDoc, AppInsightsInitializes, ConsoleInitializes, vars, process, loggers,
       request

LEMMA StartMoves ==
    ASSUME HostSetupEnds \/ Flush
    PROVE  StartAdvances /\ dispatcher' # "none" /\ UNCHANGED <<stops, polls, op, pc>>
<1>1. CASE HostSetupEnds
    BY <1>1 DEF HostSetupEnds, SetupEnds, InSetup, StartAdvances, StartStages, loggers, request
<1>2. CASE Flush
    BY <1>2 DEF Flush, StartAdvances, StartStages, loggers, request
<1> QED BY <1>1, <1>2

LEMMA Received ==
    ASSUME TypeOK, NEW r \in Requests, Receive(r)
    PROVE  /\ pc[r] = "idle" /\ pc' = [pc EXCEPT ![r] = "awaiting"]
           /\ dispatcher' # "none" /\ (dispatcher' = dispatcher \/ StartAdvances)
           /\ UNCHANGED <<stops, polls, op>>
BY DEF Receive, IsNil, Goto, StartAdvances, StartStages, loggers

LEMMA Stopped ==
    ASSUME TypeOK, ProcessStops
    PROVE  /\ stops' # stops /\ op' = op
           /\ pc' = [r \in Requests |-> IF pc[r] = "idle" THEN "idle" ELSE "done"]
<1>1. stops \in Nat
    BY BoundsAssumption DEF TypeOK
<1> QED BY <1>1 DEF ProcessStops, request

LEMMA NotStrandedStep == TypeOK /\ NotStranded /\ [Next]_vars => NotStranded'
<1> SUFFICES ASSUME TypeOK, NotStranded, [Next]_vars PROVE NotStranded'
    OBVIOUS
<1>1. ASSUME NEW o \in Owners, Poll(o) PROVE NotStranded'
    BY <1>1, PollCounts DEF NotStranded
<1>2. ASSUME NEW r \in Requests, Handle(r) PROVE NotStranded'
    <2>1. CASE Poll(r)
        BY <1>1, <2>1 DEF Owners
    <2>2. CASE ~Poll(r)
        <3>1. PICK label \in {"logger", "authorize", "validate", "read", "query", "update", "done"} :
                  /\ pc' = [pc EXCEPT ![r] = label]
                  /\ label = "query" => op[r].kind = "getWebsite"
                  /\ label = "update" => op[r].kind = "postPage"
                  /\ UNCHANGED <<dispatcher, op>>
            BY <1>2, <2>2, HandlerMoves
        <3>2. pc'[r] = label /\ \A q \in Requests : q # r => pc'[q] = pc[q]
            BY <3>1 DEF TypeOK
        <3> QED BY <3>1, <3>2 DEF NotStranded
    <2> QED BY <2>1, <2>2
<1>3. CASE HostSetupEnds \/ Flush
    BY <1>3, StartMoves DEF NotStranded
<1>4. ASSUME NEW r \in Requests, Receive(r) PROVE NotStranded'
    <2>1. pc'[r] = "awaiting" /\ \A q \in Requests : q # r => pc'[q] = pc[q]
        BY <1>4, Received DEF TypeOK
    <2> QED BY <1>4, <2>1, Received DEF NotStranded
<1>5. CASE ProcessStops
    BY <1>5, Stopped DEF NotStranded
<1>6. CASE \/ ConfigLoads \/ (\E i \in Ids : CreateDoc(i)) \/ UNCHANGED vars
           \/ \E o \in Owners : AppInsightsInitializes(o) \/ ConsoleInitializes(o)
    BY <1>6, OthersWait DEF NotStranded
<1>7. Host \in Owners
    BY DEF Owners
<1> QED BY <1>1, <1>2, <1>3, <1>4, <1>5, <1>6, <1>7 DEF Next, Start

LEMMA StepsCount == TypeOK /\ [Next]_vars => Onward /\ EachStepCounts
<1> SUFFICES ASSUME TypeOK, [Next]_vars PROVE Onward /\ EachStepCounts
    OBVIOUS
<1>1. ASSUME NEW o \in Owners, Poll(o) PROVE PollsAgain(o) /\ Onward
    BY <1>1, PollCounts DEF Onward
<1>2. ASSUME NEW r \in Requests, Handle(r)
      PROVE  (Advances(r) \/ PollsAgain(r)) /\ Onward
    <2>1. CASE Poll(r)
        BY <1>1, <2>1 DEF Owners
    <2>2. CASE ~Poll(r)
        <3>1. PICK label \in {"logger", "authorize", "validate", "read", "query", "update", "done"} :
                  /\ pc' = [pc EXCEPT ![r] = label]
                  /\ Stages[pc[r]] < Stages[label]
                  /\ UNCHANGED <<stops, dispatcher, polls>>
            BY <1>2, <2>2, HandlerMoves
        <3>2. pc'[r] = label /\ \A q \in Requests : q # r => pc'[q] = pc[q]
            BY <3>1 DEF TypeOK
        <3> QED BY <3>1, <3>2 DEF Onward, Advances
    <2> QED BY <2>1, <2>2
<1>3. ASSUME Start PROVE (StartAdvances \/ PollsAgain(Host)) /\ Onward
    <2>1. CASE Poll(Host)
        BY <1>1, <2>1 DEF Owners
    <2>2. CASE HostSetupEnds \/ Flush
        BY <2>2, StartMoves DEF Onward
    <2> QED BY <1>3, <2>1, <2>2 DEF Start
<1>4. ASSUME NEW r \in Requests, Receive(r) PROVE Onward
    <2>1. pc'[r] = "awaiting" /\ pc[r] = "idle" /\ \A q \in Requests : q # r => pc'[q] = pc[q]
        BY <1>4, Received DEF TypeOK
    <2>2. Advances(r)
        BY <2>1 DEF Advances, Stages
    <2> QED BY <1>4, <2>1, <2>2, Received DEF Onward
<1>5. ASSUME ProcessStops PROVE Onward
    <2>1. ASSUME NEW r \in Requests PROVE pc'[r] = pc[r] \/ Advances(r)
        <3>1. pc'[r] = IF pc[r] = "idle" THEN "idle" ELSE "done"
            BY <1>5, Stopped
        <3> QED BY <3>1, PlaceKnown DEF Advances, Stages
    <2> QED BY <1>5, <2>1, Stopped DEF Onward
<1>6. ASSUME \/ ConfigLoads \/ (\E i \in Ids : CreateDoc(i)) \/ UNCHANGED vars
             \/ \E o \in Owners : AppInsightsInitializes(o) \/ ConsoleInitializes(o)
      PROVE  Onward
    BY <1>6, OthersWait DEF Onward
<1>7. EachStepCounts
    BY <1>2, <1>3 DEF EachStepCounts
<1> QED BY <1>2, <1>3, <1>4, <1>5, <1>6, <1>7 DEF Next

\* No request waits in vain: while it is in hand, its handler has a next step, or it
\* awaits the promise of a start that has one (get-global-web-controller-dispatcher.ts,
\* lines 10-16; web-controller.ts, lines 30-51).
THEOREM NobodyWaitsInVain == Spec => [](\A r \in Requests : InHand(r) => GoesOn(r))
<1>1. Init => NotStranded
    BY DEF Init, NotStranded
<1>2. TypeOK /\ NotStranded => \A r \in Requests : InHand(r) => GoesOn(r)
    <2> SUFFICES ASSUME TypeOK, NotStranded, NEW r \in Requests, InHand(r) PROVE GoesOn(r)
        OBVIOUS
    <2>1. CASE pc[r] = "awaiting"
        BY <2>1 DEF NotStranded, TypeOK, GoesOn, HandlerGoesOn, StartGoesOn, Settled
    <2>2. CASE pc[r] # "awaiting"
        BY <2>2, PlaceKnown, OpFields DEF NotStranded, GoesOn, HandlerGoesOn, InHand, At
    <2> QED BY <2>1, <2>2
<1>3. IInv => TypeOK
    BY DEF IInv
<1> QED BY <1>1, <1>2, <1>3, Invariance, NotStrandedStep, PTL DEF Spec

\* Every step of a handler, or of the start, takes it to a later stage or is one of the
\* MaxPolls polls of its logger (logger.ts, lines 108-114), and
\* nothing takes a request back, not even a process that stops. So a request that is in
\* hand is answered after finitely many steps of the two.
THEOREM RequestsGoForward == Spec => [][Onward /\ EachStepCounts]_vars
<1>1. IInv => TypeOK
    BY DEF IInv
<1> QED BY <1>1, Invariance, StepsCount, PTL DEF Spec
===============================================================================
