---------------------------- MODULE DocumentStore ----------------------------
(***************************************************************************)
(* What the concurrent callers of CosmosContainerClient are promised: each *)
(* request acts on its document at most once and in one step. A merge is a *)
(* merge with the document as it is at that step. Two promises are weaker  *)
(* than the comment of mergeOrWriteDocument() says, and are actions of     *)
(* their own: a request that saw no document writes its payload over       *)
(* whatever is there now (WriteOver), and a request whose read failed and  *)
(* whose payload has no pages to merge is acknowledged although its        *)
(* document is untouched (AcknowledgeOnly).                                *)
(***************************************************************************)
EXTENDS CosmosContainer

CONSTANTS
    Requests,  \* requests of the callers, each is one call
    Ids,       \* ids of documents
    Payloads   \* the payloads that callers send

\* mergeOrWriteDocument() and deleteDocument() with their arguments.
Ops == [kind : {"merge"}, id : Ids, payload : Payloads]
         \cup [kind : {"delete"}, id : Ids]

VARIABLES
    docs,     \* docs[i]: the properties of the document under id i, or Absent
    op,       \* op[r]: what request r asks for
    outcome,  \* outcome[r]: what its caller has been told
    view      \* view[r]: what r relies on: the document as it is ("current"),
              \* that there was none ("absent"), or nothing ("unknown")

vars == <<docs, op, outcome, view>>

Pending(kind, r) == op[r].kind = kind /\ outcome[r] = "pending"

\* The caller of r is told one of answers, what r saw matters no more.
Answer(r, answers) ==
    /\ \E a \in answers : outcome' = [outcome EXCEPT ![r] = a]
    /\ view' = [view EXCEPT ![r] = "current"]
    /\ UNCHANGED op

\* An effect may stay unknown to the caller: the answer is lost on its way.
Effective == {"updated", "failed"}

Init ==
    /\ docs \in [Ids -> {Absent} \cup Fields]
    /\ op \in [Requests -> Ops]
    /\ outcome = [r \in Requests |-> "pending"]
    /\ view = [r \in Requests |-> "current"]

SeeAbsent(r) ==
    /\ Pending("merge", r)
    /\ docs[op[r].id] = Absent
    /\ view' = [view EXCEPT ![r] = "absent"]
    /\ UNCHANGED <<docs, op, outcome>>

SeeNothing(r) ==
    /\ Pending("merge", r)
    /\ view' = [view EXCEPT ![r] = "unknown"]
    /\ UNCHANGED <<docs, op, outcome>>

MergeNow(r) ==
    /\ Pending("merge", r)
    /\ view[r] = "current"
    /\ docs[op[r].id] # Absent
    /\ CanMerge(docs[op[r].id], op[r].payload)
    /\ docs' = [docs EXCEPT ![op[r].id] = MergeBodies(@, op[r].payload)]
    /\ Answer(r, Effective)

\* The document was deleted after r saw it, and comes back.
Revive(r) ==
    /\ Pending("merge", r)
    /\ view[r] = "current"
    /\ docs[op[r].id] = Absent
    /\ \E body \in Fields :
           /\ CanMerge(body, op[r].payload)
           /\ docs' = [docs EXCEPT ![op[r].id] = MergeBodies(body, op[r].payload)]
    /\ Answer(r, Effective)

WriteOver(r) ==
    /\ Pending("merge", r)
    /\ view[r] = "absent"
    /\ docs' = [docs EXCEPT ![op[r].id] = op[r].payload]
    /\ Answer(r, Effective)

AcknowledgeOnly(r) ==
    /\ Pending("merge", r)
    /\ view[r] = "unknown"
    /\ ~HasPages(op[r].payload)
    /\ Answer(r, Effective)
    /\ UNCHANGED docs

Remove(r) ==
    /\ Pending("delete", r)
    /\ docs[op[r].id] # Absent
    /\ docs' = [docs EXCEPT ![op[r].id] = Absent]
    /\ Answer(r, Effective)

Refuse(r) ==
    /\ outcome[r] = "pending"
    /\ Answer(r, {"conflict", "failed"})
    /\ UNCHANGED docs

Next ==
    \E r \in Requests :
        \/ SeeAbsent(r)
        \/ SeeNothing(r)
        \/ MergeNow(r)
        \/ Revive(r)
        \/ WriteOver(r)
        \/ AcknowledgeOnly(r)
        \/ Remove(r)
        \/ Refuse(r)

Spec == Init /\ [][Next]_vars
==============================================================================
