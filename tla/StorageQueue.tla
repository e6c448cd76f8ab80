---------------------------- MODULE StorageQueue ----------------------------
(***************************************************************************)
(* azure-queue/queue.ts: createMessage() with its retries, getMessages(),  *)
(* getMessagesWithTotalCount(), the move to the dead queue and             *)
(* deleteMessage(), used by producers and workers at the same time. The    *)
(* storage service is external: a received message is hidden until its     *)
(* visibility timeout is over, and only the pop receipt of the latest      *)
(* receive deletes it. A call to the service may fail, with or without an  *)
(* effect, and a worker may stop at any time.                              *)
(***************************************************************************)
EXTENDS Naturals, FiniteSets

CONSTANTS
    Messages,      \* calls of createMessage()
    Workers,       \* callers of getMessagesWithTotalCount()
    MaxAttempts,   \* maxEnqueueRetryCount
    MaxDequeueCount,
    MaxBatch,      \* messages per receive (32 in the code)
    TotalCount,    \* totalMessagesCount
    MaxReceives    \* bound: how often a copy of a message is received

ASSUME BoundsAssumption ==
    /\ {MaxAttempts, MaxBatch, TotalCount} \subseteq Nat \ {0}
    /\ {MaxDequeueCount, MaxReceives} \subseteq Nat

\* Every attempt to send a message may leave a copy of it in the queue.
Copies == Messages \X (1 .. MaxAttempts)

\* A received message: its copy, and the dequeue count, which tells pop receipts
\* of the copy apart.
Items == [copy : Copies, receipt : 1 .. MaxReceives]

VARIABLES
    place,     \* place[c]: "none", "visible" or "hidden" in the queue, or "deleted"
    dequeues,  \* dequeues[c]: how often c was received
    dead,      \* copies that are in the dead queue
    attempts,  \* attempts[m]: attempts to send m
    answer,    \* answer[m]: what createMessage() returned
    pc,        \* pc[w]: "idle", "receive" or "move": what the call of w does
    batch,     \* batch[w]: received, and to be moved to the dead queue
    moving,    \* moving[w]: sent to the dead queue and not deleted yet
    messages,  \* messages[w]: collected by the call of w
    kept,      \* kept[w]: the last batch had a message to return
    held,      \* held[w]: what the call of w returned, and is not deleted yet
    handed,    \* history: items that a call returned
    finished,  \* history: copies that a worker deleted after its work
    abandoned  \* history: copies that were received by a call that returned nothing

vars == <<place, dequeues, dead, attempts, answer, pc, batch, moving, messages, kept, held,
          handed, finished, abandoned>>

queue == <<place, dequeues>>

producer == <<attempts, answer>>

call == <<pc, batch, moving, messages, kept>>

history == <<handed, finished, abandoned>>

CopiesOf(items) == {i.copy : i \in items}

Init ==
    /\ place = [c \in Copies |-> "none"]
    /\ dequeues = [c \in Copies |-> 0]
    /\ dead = {}
    /\ attempts = [m \in Messages |-> 0]
    /\ answer = [m \in Messages |-> "pending"]
    /\ pc = [w \in Workers |-> "idle"]
    /\ batch = [w \in Workers |-> {}]
    /\ moving = [w \in Workers |-> {}]
    /\ messages = [w \in Workers |-> {}]
    /\ kept = [w \in Workers |-> FALSE]
    /\ held = [w \in Workers |-> {}]
    /\ handed = {}
    /\ finished = {}
    /\ abandoned = {}

-------------------------------------------------------------------------------
\* createMessage(): executeWithRetries() of the call to the service.

Attempt(m) ==
    /\ answer[m] = "pending"
    /\ attempts' = [attempts EXCEPT ![m] = @ + 1]

SendSucceeds(m) ==
    /\ Attempt(m)
    /\ place' = [place EXCEPT ![<<m, attempts[m] + 1>>] = "visible"]
    /\ answer' = [answer EXCEPT ![m] = "true"]
    /\ UNCHANGED <<dequeues, dead, call, held, history>>

\* Mutant: no last attempt.
SendFailsForever(m) ==
    /\ Attempt(m)
    /\ UNCHANGED <<queue, answer, dead, call, held, history>>

\* The attempt fails, but the message may be there. After the last one,
\* createMessage() returns false.
SendFails(m) ==
    /\ Attempt(m)
    /\ \E p \in {"none", "visible"} :
           place' = [place EXCEPT ![<<m, attempts[m] + 1>>] = p]
    /\ answer' = [answer EXCEPT ![m] =
                    IF attempts[m] + 1 = MaxAttempts THEN "false" ELSE "pending"]
    /\ UNCHANGED <<dequeues, dead, call, held, history>>

-------------------------------------------------------------------------------
\* The service

\* The visibility timeout of a message that was received is over.
Reappear(c) ==
    /\ place[c] = "hidden"
    /\ place' = [place EXCEPT ![c] = "visible"]
    /\ UNCHANGED <<dequeues, dead, producer, call, held, history>>

\* The service hides the messages of a receive.
Hide(cs) ==
    /\ place' = [c \in Copies |-> IF c \in cs THEN "hidden" ELSE place[c]]
    /\ dequeues' = [c \in Copies |-> IF c \in cs THEN dequeues[c] + 1 ELSE dequeues[c]]

\* deleteQueueMessage(): the pop receipt must be that of the latest receive. Any
\* error is logged and swallowed.
Deletes(item) ==
    /\ place[item.copy] \in {"visible", "hidden"}
    /\ item.receipt = dequeues[item.copy]

DeleteMaybe(item) ==
    \/ Deletes(item) /\ place' = [place EXCEPT ![item.copy] = "deleted"]
    \/ UNCHANGED place

-------------------------------------------------------------------------------
\* getMessagesWithTotalCount() and getMessages()

StartCall(w) ==
    /\ pc[w] = "idle"
    /\ held[w] = {}
    /\ pc' = [pc EXCEPT ![w] = "receive"]
    /\ UNCHANGED <<queue, dead, producer, batch, moving, messages, kept, held, history>>

\* The sets of copies that a receive of w may yield.
Receivable(w) ==
    {cs \in SUBSET {c \in Copies : place[c] = "visible" /\ dequeues[c] < MaxReceives} :
        /\ Cardinality(cs) <= MaxBatch
        /\ Cardinality(cs) <= TotalCount - Cardinality(messages[w])}

\* Mutants: one dequeue more, one dequeue less is allowed.
ExceedsByOne(item) == item.receipt > MaxDequeueCount + 1

ExceedsEarly(item) == item.receipt >= MaxDequeueCount

Exceeds(item) == item.receipt > MaxDequeueCount

\* Mutant: a message that is moved to the dead queue is returned as well.
KeptAll(items) == items

\* What getMessages() returns.
Kept(items) == {i \in items : ~Exceeds(i)}

\* One receive, and the messages it returns sorted. (The code sorts them one at a
\* time, between moves to the dead queue. If a move throws, all are lost to the
\* caller whatever the order.)
Receive(w) ==
    /\ pc[w] = "receive"
    /\ \E cs \in Receivable(w) :
           LET items == {[copy |-> c, receipt |-> dequeues[c] + 1] : c \in cs}
           IN  /\ Hide(cs)
               /\ batch' = [batch EXCEPT ![w] = {i \in items : Exceeds(i)}]
               /\ messages' = [messages EXCEPT ![w] = @ \cup Kept(items)]
               /\ kept' = [kept EXCEPT ![w] = Kept(items) # {}]
    /\ pc' = [pc EXCEPT ![w] = "move"]
    /\ UNCHANGED <<dead, producer, moving, held, history>>

\* Mutant: the message is deleted before it is sent to the dead queue.
SendToDeadLast(w, item) ==
    /\ pc[w] = "move"
    /\ moving[w] = {}
    /\ item \in batch[w]
    /\ DeleteMaybe(item)
    /\ batch' = [batch EXCEPT ![w] = @ \ {item}]
    /\ moving' = [moving EXCEPT ![w] = {item}]
    /\ UNCHANGED <<dequeues, dead, producer, pc, messages, kept, held, history>>

\* moveToDeadQueue(): first a copy is sent to the dead queue ...
SendToDead(w, item) ==
    /\ pc[w] = "move"
    /\ moving[w] = {}
    /\ item \in batch[w]
    /\ dead' = dead \cup {item.copy}
    /\ batch' = [batch EXCEPT ![w] = @ \ {item}]
    /\ moving' = [moving EXCEPT ![w] = {item}]
    /\ UNCHANGED <<queue, producer, pc, messages, kept, held, history>>

\* ... then the message is deleted from the queue.
DeleteMoved(w, item) ==
    /\ item \in moving[w]
    /\ DeleteMaybe(item)
    /\ moving' = [moving EXCEPT ![w] = {}]
    /\ UNCHANGED <<dequeues, dead, producer, pc, batch, messages, kept, held, history>>

Moved(w) == pc[w] = "move" /\ batch[w] = {} /\ moving[w] = {}

\* Mutant: a batch without a message does not end the call.
MoreWhileMissing(w) == Cardinality(messages[w]) < TotalCount

\* Does getMessagesWithTotalCount() receive again?
More(w) == kept[w] /\ Cardinality(messages[w]) < TotalCount

NextBatch(w) ==
    /\ Moved(w)
    /\ More(w)
    /\ pc' = [pc EXCEPT ![w] = "receive"]
    /\ UNCHANGED <<queue, dead, producer, batch, moving, messages, kept, held, history>>

CallOver(w) ==
    /\ batch' = [batch EXCEPT ![w] = {}]
    /\ moving' = [moving EXCEPT ![w] = {}]
    /\ messages' = [messages EXCEPT ![w] = {}]
    /\ kept' = [kept EXCEPT ![w] = FALSE]
    /\ pc' = [pc EXCEPT ![w] = "idle"]

Return(w) ==
    /\ Moved(w)
    /\ ~More(w)
    /\ CallOver(w)
    /\ held' = [held EXCEPT ![w] = messages[w]]
    /\ handed' = handed \cup messages[w]
    /\ UNCHANGED <<queue, dead, producer, finished, abandoned>>

\* The caller never sees what the call received.
Abandon(w) ==
    /\ CallOver(w)
    /\ abandoned' = abandoned \cup CopiesOf(batch[w] \cup moving[w] \cup messages[w])
    /\ UNCHANGED <<producer, handed, finished>>

\* A receive fails, perhaps after the service has hidden the messages.
ReceiveThrows(w) ==
    /\ pc[w] = "receive"
    /\ \E cs \in Receivable(w) :
           /\ Hide(cs)
           /\ abandoned' = abandoned \cup cs \cup CopiesOf(messages[w])
    /\ CallOver(w)
    /\ UNCHANGED <<dead, producer, held, handed, finished>>

\* The message can not be sent to the dead queue, or is there and the answer is lost.
SendToDeadThrows(w, item) ==
    /\ pc[w] = "move"
    /\ moving[w] = {}
    /\ item \in batch[w]
    /\ \E sent \in SUBSET {item.copy} : dead' = dead \cup sent
    /\ Abandon(w)
    /\ UNCHANGED <<queue, held>>

-------------------------------------------------------------------------------
\* The worker

\* deleteMessage() after the work on a message.
DeleteMessage(w, item) ==
    /\ item \in held[w]
    /\ DeleteMaybe(item)
    /\ finished' = IF place' # place THEN finished \cup {item.copy} ELSE finished
    /\ held' = [held EXCEPT ![w] = @ \ {item}]
    /\ UNCHANGED <<dequeues, dead, producer, call, handed, abandoned>>

\* The worker stops, and a new one takes its place.
WorkerStops(w) ==
    /\ pc[w] # "idle" \/ held[w] # {}
    /\ Abandon(w)
    /\ held' = [held EXCEPT ![w] = {}]
    /\ UNCHANGED <<queue, dead>>

-------------------------------------------------------------------------------
Create(m) == SendSucceeds(m) \/ SendFails(m)

\* The steps a call takes until it is over.
CallStep(w) ==
    \/ Receive(w)
    \/ ReceiveThrows(w)
    \/ NextBatch(w)
    \/ Return(w)
    \/ \E item \in batch[w] : SendToDead(w, item) \/ SendToDeadThrows(w, item)
    \/ \E item \in moving[w] : DeleteMoved(w, item)

Next ==
    \/ \E m \in Messages : Create(m)
    \/ \E c \in Copies : Reappear(c)
    \/ \E w \in Workers :
           \/ StartCall(w)
           \/ CallStep(w)
           \/ \E item \in held[w] : DeleteMessage(w, item)
           \/ WorkerStops(w)

Spec == Init /\ [][Next]_vars

\* The event loop runs every call that was started, and every call of the service
\* ends. Nothing forces a worker to start a call or to delete a message.
FairSpec ==
    /\ Spec
    /\ \A w \in Workers : WF_vars(CallStep(w))

-------------------------------------------------------------------------------
TypeOK ==
    /\ place \in [Copies -> {"none", "visible", "hidden", "deleted"}]
    /\ dequeues \in [Copies -> 0 .. MaxReceives]
    /\ dead \subseteq Copies
    /\ attempts \in [Messages -> 0 .. MaxAttempts]
    /\ answer \in [Messages -> {"pending", "true", "false"}]
    /\ pc \in [Workers -> {"idle", "receive", "move"}]
    /\ {batch, moving, messages, held} \subseteq [Workers -> SUBSET Items]
    /\ kept \in [Workers -> BOOLEAN]
    /\ handed \subseteq Items
    /\ finished \subseteq Copies
    /\ abandoned \subseteq Copies

\* A message that createMessage() acknowledged is not lost: until a worker deletes
\* it after its work, it is in the queue or in the dead queue, whichever calls fail
\* and whichever workers stop (queue.ts:143-144: send first, then delete).
AcknowledgedNotLost ==
    \A m \in Messages : answer[m] = "true" =>
        \E c \in {m} \X (1 .. MaxAttempts) :
            \/ place[c] \in {"visible", "hidden"}
            \/ c \in dead
            \/ c \in finished

\* However often a message reappears, the workers together get it no more often
\* than maxDequeueCount (queue.ts:15: more "may destroy global scan retry logic").
HandedAtMost ==
    \A c \in Copies : Cardinality({i \in handed : i.copy = c}) <= MaxDequeueCount

\* A message goes to the dead queue only if a call has received it before that: one
\* that has returned it, has come to nothing, or has not returned yet (a call for many
\* messages may take longer than the visibility timeout of the first ones).
DeadWasTried ==
    dead \subseteq CopiesOf(handed) \cup abandoned
                       \cup UNION {CopiesOf(messages[w]) : w \in Workers}

\* What a worker has deleted after its work is not in the dead queue: the pop
\* receipt of a worker that took too long does not delete what is being moved.
FinishedIsNotDead == finished \cap dead = {}

\* The dead queue holds just what failed: messages that were tried and not finished.
DeadHasFailed == DeadWasTried /\ FinishedIsNotDead

\* A call of getMessagesWithTotalCount() ends, even if the queue has fewer messages
\* than it asks for, or only such that go to the dead queue.
EveryCallEnds == \A w \in Workers : pc[w] # "idle" ~> pc[w] = "idle"

===============================================================================
