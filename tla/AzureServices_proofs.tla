--------------------------- MODULE AzureServices_proofs ---------------------------
(***************************************************************************)
(* Proofs about the two clients of azure-services that keep their promises *)
(* against a service that fails: the queue (StorageQueue), and the         *)
(* credential it gets its token from (ManagedCredential).                  *)
(*                                                                         *)
(* The queue: the dequeue count of a copy only grows, and decides for good *)
(* what becomes of it: at most MaxDequeueCount and it may be returned to a *)
(* worker, and finished; more and it may only be moved to the dead queue.  *)
(* So the two can not happen to the same copy, and nothing is deleted that *)
(* was neither finished nor sent to the dead queue.                        *)
(*                                                                         *)
(* The credential: the mutex belongs to the caller that asks IMDS, an      *)
(* answer is under way for MaxDelay at most, and this is known of a cached *)
(* token: its resource, its time to live and the delay it was stored with. *)
(***************************************************************************)
EXTENDS StorageQueue, ManagedCredential, FiniteSetTheorems, FunctionTheorems, TLAPS

-------------------------------------------------------------------------------
\* The queue. Lines are those of azure-queue/queue.ts.

\* A message that is being sent has attempts left, and no copy of a later attempt.
SendsLeft ==
    \A m \in Messages :
        /\ answer[m] = "pending" => attempts[m] < MaxAttempts
        /\ \A k \in 1 .. MaxAttempts : attempts[m] < k => place[<<m, k>>] = "none"

\* What is moved was received too often, what is returned was not.
ToBeMoved ==
    \A w \in Workers : \A i \in batch[w] \cup moving[w] :
        MaxDequeueCount < i.receipt /\ i.receipt <= dequeues[i.copy]

ToBeReturned ==
    \A w \in Workers : \A i \in messages[w] \cup held[w] :
        i.receipt <= MaxDequeueCount /\ i.receipt <= dequeues[i.copy]

HandedInTime == \A i \in handed : i.receipt <= MaxDequeueCount

MovingIsSent == \A w \in Workers : \A i \in moving[w] : i.copy \in dead

DeadIsOver == \A c \in dead : MaxDequeueCount < dequeues[c]

FinishedIsGone == \A c \in finished : place[c] = "deleted" /\ dequeues[c] <= MaxDequeueCount

\* A call has received the copy before now.
Tried(c) ==
    \/ \E i \in handed : i.copy = c
    \/ c \in abandoned
    \/ \E w \in Workers : \E i \in messages[w] : i.copy = c

ReceivedIsTried ==
    MaxDequeueCount # 0 => \A c \in Copies : dequeues[c] # 0 => Tried(c)

IInv ==
    /\ TypeOK
    /\ SendsLeft /\ AcknowledgedNotLost
    /\ ToBeMoved /\ ToBeReturned /\ HandedInTime
    /\ MovingIsSent /\ DeadIsOver /\ FinishedIsGone
    /\ ReceivedIsTried

\* A copy that no failure has lost.
Safe(c) == place[c] \in {"visible", "hidden"} \/ c \in dead \/ c \in finished

-------------------------------------------------------------------------------
LEMMA Types ==
    ASSUME TypeOK
    PROVE  /\ batch \in [Workers -> SUBSET Items] /\ moving \in [Workers -> SUBSET Items]
           /\ messages \in [Workers -> SUBSET Items] /\ held \in [Workers -> SUBSET Items]
           /\ \A i \in Items : i.copy \in Copies /\ i.receipt \in Nat
           /\ \A c \in Copies : dequeues[c] \in Nat
           /\ MaxAttempts \in Nat \ {0} /\ MaxDequeueCount \in Nat /\ MaxReceives \in Nat
BY BoundsAssumption, SMT DEF TypeOK, Items

\* What was acknowledged stays safe while every copy stays safe.
LEMMA StayingSafe ==
    ASSUME AcknowledgedNotLost, answer' = answer,
           \A c \in Copies : Safe(c) => Safe(c)'
    PROVE  AcknowledgedNotLost'
<1> SUFFICES ASSUME NEW m \in Messages, answer[m] = "true"
             PROVE  \E c \in {m} \X (1 .. MaxAttempts) : Safe(c)'
    BY DEF AcknowledgedNotLost, Safe
<1>1. PICK c \in {m} \X (1 .. MaxAttempts) : Safe(c)
    BY DEF AcknowledgedNotLost, Safe
<1>2. c \in Copies
    BY SMT DEF Copies
<1> QED BY <1>1, <1>2

\* The service deletes at most the copy it is asked for (queue.ts, lines 122-128).
LEMMA Deleting ==
    ASSUME TypeOK, NEW item \in Items, DeleteMaybe(item)
    PROVE  /\ place' \in [Copies -> {"none", "visible", "hidden", "deleted"}]
           /\ \A c \in Copies : c # item.copy => place'[c] = place[c]
           /\ \A c \in Copies : place'[c] = place[c] \/ place'[c] = "deleted"
           /\ \A c \in Copies : place[c] = "none" => place'[c] = "none"
           /\ place' # place => /\ item.receipt = dequeues[item.copy]
                                /\ place'[item.copy] = "deleted"
                                /\ place[item.copy] # "deleted"
<1>1. item.copy \in Copies /\ place \in [Copies -> {"none", "visible", "hidden", "deleted"}]
    BY Types DEF TypeOK
<1>2. CASE Deletes(item) /\ place' = [place EXCEPT ![item.copy] = "deleted"]
    BY <1>1, <1>2 DEF Deletes
<1>3. CASE UNCHANGED place
    BY <1>1, <1>3
<1> QED BY <1>2, <1>3 DEF DeleteMaybe

\* A receive hides visible copies, and counts it.
LEMMA Hiding ==
    ASSUME TypeOK, NEW w \in Workers, NEW cs \in Receivable(w), Hide(cs)
    PROVE  /\ cs \subseteq Copies
           /\ \A c \in cs : /\ place[c] = "visible" /\ place'[c] = "hidden"
                            /\ dequeues'[c] = dequeues[c] + 1 /\ dequeues[c] < MaxReceives
           /\ \A c \in Copies : c \notin cs => place'[c] = place[c] /\ dequeues'[c] = dequeues[c]
           /\ place' \in [Copies -> {"none", "visible", "hidden", "deleted"}]
           /\ dequeues' \in [Copies -> 0 .. MaxReceives]
           /\ \A c \in Copies : \A n \in Nat : n <= dequeues[c] => n <= dequeues'[c]
<1>1. /\ cs \subseteq Copies
      /\ \A c \in cs : place[c] = "visible" /\ dequeues[c] < MaxReceives
    BY DEF Receivable
<1>2. /\ place' = [c \in Copies |-> IF c \in cs THEN "hidden" ELSE place[c]]
      /\ dequeues' = [c \in Copies |-> IF c \in cs THEN dequeues[c] + 1 ELSE dequeues[c]]
    BY DEF Hide
<1>3. /\ place \in [Copies -> {"none", "visible", "hidden", "deleted"}]
      /\ dequeues \in [Copies -> 0 .. MaxReceives]
    BY DEF TypeOK
<1>4. place' \in [Copies -> {"none", "visible", "hidden", "deleted"}]
    BY <1>2, <1>3
<1>5. \A c \in cs : /\ place'[c] = "hidden" /\ dequeues'[c] = dequeues[c] + 1
                    /\ dequeues'[c] \in 0 .. MaxReceives
    BY <1>1, <1>2, <1>3, Types, SMT
<1>6. \A c \in Copies : c \notin cs => place'[c] = place[c] /\ dequeues'[c] = dequeues[c]
    BY <1>2
<1>7. dequeues' \in [Copies -> 0 .. MaxReceives]
    BY <1>2, <1>3, <1>5, <1>6
<1>8. ASSUME NEW c \in Copies, NEW n \in Nat, n <= dequeues[c] PROVE n <= dequeues'[c]
    BY <1>5, <1>6, <1>8, Types, SMT
<1> QED BY <1>1, <1>4, <1>5, <1>6, <1>7, <1>8

\* What a receive leaves as it was, whether the caller sees its answer or not.
LEMMA HidingKeeps ==
    ASSUME IInv, NEW w \in Workers, NEW cs \in Receivable(w), Hide(cs),
           UNCHANGED <<answer, attempts, dead, finished>>
    PROVE  SendsLeft' /\ AcknowledgedNotLost' /\ DeadIsOver' /\ FinishedIsGone'
<1> USE DEF IInv
<1>1. SendsLeft'
    <2> SUFFICES ASSUME NEW m \in Messages, NEW k \in 1 .. MaxAttempts, attempts[m] < k
                 PROVE  place'[<<m, k>>] = "none"
        BY DEF SendsLeft
    <2>1. <<m, k>> \in Copies /\ place[<<m, k>>] = "none"
        BY DEF SendsLeft, Copies
    <2> QED BY <2>1, Hiding
<1>2. \A c \in Copies : Safe(c) => Safe(c)'
    BY Hiding DEF Safe
<1>3. AcknowledgedNotLost'
    BY <1>2, StayingSafe
<1>4. DeadIsOver'
    <2> SUFFICES ASSUME NEW c \in dead PROVE MaxDequeueCount < dequeues'[c]
        BY DEF DeadIsOver
    <2>1. c \in Copies /\ MaxDequeueCount + 1 <= dequeues[c] /\ MaxDequeueCount + 1 \in Nat
        BY Types, SMT DEF DeadIsOver, TypeOK
    <2>2. MaxDequeueCount + 1 <= dequeues'[c] /\ dequeues'[c] \in Nat
        BY <2>1, Hiding, Types, SMT
    <2> QED BY <2>2, Types, SMT
<1>5. FinishedIsGone'
    <2> SUFFICES ASSUME NEW c \in finished
                 PROVE  place'[c] = "deleted" /\ dequeues'[c] <= MaxDequeueCount
        BY DEF FinishedIsGone
    <2>1. c \in Copies /\ place[c] = "deleted" /\ dequeues[c] <= MaxDequeueCount
        BY DEF FinishedIsGone, TypeOK
    <2> QED BY <2>1, Hiding
<1> QED BY <1>1, <1>3, <1>4, <1>5

\* The end of a call forgets what the call had.
LEMMA Ending ==
    ASSUME TypeOK, NEW w \in Workers, CallOver(w)
    PROVE  /\ pc' \in [Workers -> {"idle", "receive", "move"}] /\ kept' \in [Workers -> BOOLEAN]
           /\ batch' \in [Workers -> SUBSET Items] /\ moving' \in [Workers -> SUBSET Items]
           /\ messages' \in [Workers -> SUBSET Items]
           /\ \A v \in Workers : /\ batch'[v] \subseteq batch[v] /\ moving'[v] \subseteq moving[v]
                                 /\ messages'[v] \subseteq messages[v]
                                 /\ v # w => messages'[v] = messages[v]
BY Types, SMT DEF CallOver, TypeOK

\* The history remembers what a call abandons: it was tried.
LEMMA Abandoning ==
    ASSUME TypeOK, NEW w \in Workers, Abandon(w)
    PROVE  /\ abandoned' \subseteq Copies
           /\ \A c \in Copies : Tried(c) => Tried(c)'
<1>1. /\ abandoned' = abandoned \cup CopiesOf(batch[w] \cup moving[w] \cup messages[w])
      /\ CallOver(w) /\ handed' = handed
    BY DEF Abandon
<1>2. batch[w] \cup moving[w] \cup messages[w] \subseteq Items
    BY Types
<1>3. CopiesOf(batch[w] \cup moving[w] \cup messages[w]) \subseteq Copies
    BY <1>2, Types DEF CopiesOf
<1>4. ASSUME NEW c \in Copies, Tried(c) PROVE Tried(c)'
    <2>1. CASE \E i \in handed : i.copy = c
        BY <1>1, <2>1 DEF Tried
    <2>2. CASE c \in abandoned
        BY <1>1, <2>2 DEF Tried
    <2>3. CASE \E i \in messages[w] : i.copy = c
        BY <1>1, <2>3 DEF Tried, CopiesOf
    <2>4. ASSUME NEW v \in Workers, v # w, \E i \in messages[v] : i.copy = c
          PROVE  Tried(c)'
        BY <1>1, <2>4, Ending DEF Tried
    <2> QED BY <1>4, <2>1, <2>2, <2>3, <2>4 DEF Tried
<1> QED BY <1>1, <1>3, <1>4 DEF TypeOK

\* Nothing is wrong before the first call.
LEMMA InitInv == Init => IInv
<1> SUFFICES ASSUME Init PROVE IInv
    OBVIOUS
<1>1. TypeOK
    BY BoundsAssumption, SMT DEF Init, TypeOK
<1>2. SendsLeft /\ AcknowledgedNotLost
    BY BoundsAssumption, SMT DEF Init, SendsLeft, AcknowledgedNotLost, Copies
<1>3. ToBeMoved /\ ToBeReturned /\ HandedInTime /\ MovingIsSent /\ DeadIsOver /\ FinishedIsGone
      /\ ReceivedIsTried
    BY DEF Init, ToBeMoved, ToBeReturned, HandedInTime, MovingIsSent, DeadIsOver, FinishedIsGone,
           ReceivedIsTried
<1> QED BY <1>1, <1>2, <1>3 DEF IInv

\* An attempt to send a message, whatever comes of it (createMessage, lines 75-85).
LEMMA CreateStep == ASSUME IInv, NEW m \in Messages, Create(m) PROVE IInv'
<1> USE DEF IInv
<1>1. PICK p \in {"none", "visible"} :
          /\ place' = [place EXCEPT ![<<m, attempts[m] + 1>>] = p]
          /\ \/ p = "visible" /\ answer' = [answer EXCEPT ![m] = "true"]
             \/ answer' = [answer EXCEPT ![m] =
                             IF attempts[m] + 1 = MaxAttempts THEN "false" ELSE "pending"]
    BY DEF Create, SendSucceeds, SendFails
<1>2. /\ answer[m] = "pending" /\ attempts' = [attempts EXCEPT ![m] = @ + 1]
      /\ UNCHANGED <<dequeues, dead, pc, batch, moving, messages, kept, held,
                     handed, finished, abandoned>>
    BY DEF Create, SendSucceeds, SendFails, Attempt, call, history
<1>3. /\ attempts[m] \in Nat /\ attempts[m] < MaxAttempts /\ MaxAttempts \in Nat
      /\ attempts[m] + 1 \in 1 .. MaxAttempts
      /\ <<m, attempts[m] + 1>> \in Copies /\ place[<<m, attempts[m] + 1>>] = "none"
    BY <1>2, BoundsAssumption, SMT DEF SendsLeft, TypeOK, Copies
<1>4. /\ place'[<<m, attempts[m] + 1>>] = p
      /\ \A c \in Copies : c # <<m, attempts[m] + 1>> => place'[c] = place[c]
      /\ place' \in [Copies -> {"none", "visible", "hidden", "deleted"}]
    BY <1>1, <1>3 DEF TypeOK
<1>5. /\ attempts'[m] = attempts[m] + 1
      /\ \A n \in Messages : n # m => attempts'[n] = attempts[n] /\ answer'[n] = answer[n]
      /\ answer'[m] = "true" => p = "visible"
      /\ answer'[m] = "pending" => attempts[m] + 1 # MaxAttempts
      /\ answer' \in [Messages -> {"pending", "true", "false"}]
    BY <1>1, <1>2 DEF TypeOK
<1>6. attempts' \in [Messages -> 0 .. MaxAttempts]
    BY <1>2, <1>3, SMT DEF TypeOK
<1>7. TypeOK'
    BY <1>2, <1>4, <1>5, <1>6 DEF TypeOK
<1>8. SendsLeft'
    <2>1. ASSUME NEW n \in Messages, answer'[n] = "pending" PROVE attempts'[n] < MaxAttempts
        <3>1. CASE n = m
            BY <1>3, <1>5, <2>1, <3>1, SMT
        <3>2. CASE n # m
            BY <1>5, <2>1, <3>2 DEF SendsLeft
        <3> QED BY <3>1, <3>2
    <2>2. ASSUME NEW n \in Messages, NEW k \in 1 .. MaxAttempts, attempts'[n] < k
          PROVE  place'[<<n, k>>] = "none"
        <3>1. <<n, k>> \in Copies
            BY DEF Copies
        <3>2. CASE n = m
            <4>1. attempts[m] < k /\ k # attempts[m] + 1
                BY <1>3, <1>5, <2>2, <3>2, SMT
            <4> QED BY <1>4, <3>1, <3>2, <4>1 DEF SendsLeft
        <3>3. CASE n # m
            BY <1>4, <1>5, <2>2, <3>1, <3>3 DEF SendsLeft
        <3> QED BY <3>2, <3>3
    <2> QED BY <2>1, <2>2 DEF SendsLeft
<1>9. AcknowledgedNotLost'
    <2> SUFFICES ASSUME NEW n \in Messages, answer'[n] = "true"
                 PROVE  \E c \in {n} \X (1 .. MaxAttempts) : Safe(c)'
        BY DEF AcknowledgedNotLost, Safe
    <2>1. CASE n = m
        BY <1>3, <1>4, <1>5, <2>1 DEF Safe
    <2>2. CASE n # m
        <3>1. PICK c \in {n} \X (1 .. MaxAttempts) : Safe(c)
            BY <1>5, <2>2 DEF AcknowledgedNotLost, Safe
        <3>2. c \in Copies /\ c # <<m, attempts[m] + 1>>
            BY <2>2, SMT DEF Copies
        <3>3. Safe(c)'
            BY <1>2, <1>4, <3>1, <3>2 DEF Safe
        <3> QED BY <3>3
    <2> QED BY <2>1, <2>2
<1>10. ToBeMoved' /\ ToBeReturned' /\ HandedInTime' /\ MovingIsSent' /\ DeadIsOver'
       /\ ReceivedIsTried'
    BY <1>2 DEF ToBeMoved, ToBeReturned, HandedInTime, MovingIsSent, DeadIsOver, ReceivedIsTried,
                Tried
<1>11. FinishedIsGone'
    <2>1. \A c \in finished : c \in Copies /\ c # <<m, attempts[m] + 1>>
        BY <1>3 DEF FinishedIsGone, TypeOK
    <2> QED BY <1>2, <1>4, <2>1 DEF FinishedIsGone
<1> QED BY <1>7, <1>8, <1>9, <1>10, <1>11

\* A message whose visibility timeout is over can be received again.
LEMMA ReappearStep == ASSUME IInv, NEW copy \in Copies, Reappear(copy) PROVE IInv'
<1> USE DEF IInv
<1>1. /\ place[copy] = "hidden" /\ place' = [place EXCEPT ![copy] = "visible"]
      /\ UNCHANGED <<dequeues, dead, attempts, answer, pc, batch, moving, messages, kept, held,
                     handed, finished, abandoned>>
    BY DEF Reappear, producer, call, history
<1>2. /\ place'[copy] = "visible"
      /\ \A c \in Copies : c # copy => place'[c] = place[c]
      /\ place' \in [Copies -> {"none", "visible", "hidden", "deleted"}]
    BY <1>1 DEF TypeOK
<1>3. TypeOK'
    BY <1>1, <1>2 DEF TypeOK
<1>4. SendsLeft'
    BY <1>1, <1>2 DEF SendsLeft, Copies
<1>5. AcknowledgedNotLost'
    BY <1>1, <1>2, StayingSafe DEF Safe
<1>6. ToBeMoved' /\ ToBeReturned' /\ HandedInTime' /\ MovingIsSent' /\ DeadIsOver'
      /\ ReceivedIsTried'
    BY <1>1 DEF ToBeMoved, ToBeReturned, HandedInTime, MovingIsSent, DeadIsOver, ReceivedIsTried,
                Tried
<1>7. FinishedIsGone'
    BY <1>1, <1>2 DEF FinishedIsGone, TypeOK
<1> QED BY <1>3, <1>4, <1>5, <1>6, <1>7

\* The beginning of a call, and of its next receive (lines 53-64).
LEMMA GoOnStep == ASSUME IInv, NEW w \in Workers, StartCall(w) \/ NextBatch(w) PROVE IInv'
<1> USE DEF IInv
<1>1. /\ pc' = [pc EXCEPT ![w] = "receive"]
      /\ UNCHANGED <<place, dequeues, dead, attempts, answer, batch, moving, messages, kept, held,
                     handed, finished, abandoned>>
    BY DEF StartCall, NextBatch, queue, producer, history
<1>2. TypeOK'
    BY <1>1 DEF TypeOK
<1>3. SendsLeft' /\ AcknowledgedNotLost' /\ FinishedIsGone'
    BY <1>1 DEF SendsLeft, AcknowledgedNotLost, FinishedIsGone
<1>4. ToBeMoved' /\ ToBeReturned' /\ HandedInTime' /\ MovingIsSent' /\ DeadIsOver'
      /\ ReceivedIsTried'
    BY <1>1 DEF ToBeMoved, ToBeReturned, HandedInTime, MovingIsSent, DeadIsOver, ReceivedIsTried,
                Tried
<1> QED BY <1>2, <1>3, <1>4

\* The dequeue count decides what is returned and what is moved (lines 37-48).
LEMMA ReceiveStep == ASSUME IInv, NEW w \in Workers, Receive(w) PROVE IInv'
<1> USE DEF IInv
<1> DEFINE ItemsOf(cs) == {[copy |-> c, receipt |-> dequeues[c] + 1] : c \in cs}
<1>1. PICK cs \in Receivable(w) :
          /\ Hide(cs)
          /\ batch' = [batch EXCEPT ![w] = {i \in ItemsOf(cs) : Exceeds(i)}]
          /\ messages' = [messages EXCEPT ![w] = @ \cup Kept(ItemsOf(cs))]
          /\ kept' = [kept EXCEPT ![w] = Kept(ItemsOf(cs)) # {}]
    BY DEF Receive
<1>2. /\ pc' = [pc EXCEPT ![w] = "move"]
      /\ UNCHANGED <<dead, attempts, answer, moving, held, handed, finished, abandoned>>
    BY DEF Receive, producer, history
<1> HIDE DEF ItemsOf
<1>3. \A i \in ItemsOf(cs) : /\ i \in Items /\ i.copy \in cs
                             /\ i.receipt = dequeues[i.copy] + 1
                             /\ i.receipt <= dequeues'[i.copy]
    <2> SUFFICES ASSUME NEW c \in cs
                 PROVE  /\ [copy |-> c, receipt |-> dequeues[c] + 1] \in Items
                        /\ dequeues[c] + 1 <= dequeues'[c]
        BY DEF ItemsOf
    <2>1. /\ c \in Copies /\ dequeues'[c] = dequeues[c] + 1 /\ dequeues[c] < MaxReceives
          /\ dequeues[c] \in Nat /\ MaxReceives \in Nat
        BY <1>1, Hiding, Types
    <2>2. dequeues[c] + 1 \in 1 .. MaxReceives /\ dequeues[c] + 1 <= dequeues'[c]
        BY <2>1, SMT
    <2> QED BY <2>1, <2>2 DEF Items
<1>4. /\ batch'[w] = {i \in ItemsOf(cs) : Exceeds(i)}
      /\ messages'[w] = messages[w] \cup Kept(ItemsOf(cs))
      /\ \A v \in Workers : v # w => batch'[v] = batch[v] /\ messages'[v] = messages[v]
      /\ batch' \in [Workers -> SUBSET Items] /\ messages' \in [Workers -> SUBSET Items]
    <2>1. {i \in ItemsOf(cs) : Exceeds(i)} \in SUBSET Items /\ Kept(ItemsOf(cs)) \in SUBSET Items
        BY <1>3 DEF Kept
    <2>2. batch \in [Workers -> SUBSET Items] /\ messages \in [Workers -> SUBSET Items]
        BY Types
    <2> QED BY <1>1, <2>1, <2>2
<1>5. TypeOK'
    <2>1. pc' \in [Workers -> {"idle", "receive", "move"}] /\ kept' \in [Workers -> BOOLEAN]
        BY <1>1, <1>2 DEF TypeOK
    <2>2. moving \in [Workers -> SUBSET Items] /\ held \in [Workers -> SUBSET Items]
        BY Types
    <2>3. /\ place' \in [Copies -> {"none", "visible", "hidden", "deleted"}]
          /\ dequeues' \in [Copies -> 0 .. MaxReceives]
        BY <1>1, Hiding
    <2> QED BY <1>2, <1>4, <2>1, <2>2, <2>3 DEF TypeOK
<1>6. SendsLeft' /\ AcknowledgedNotLost' /\ DeadIsOver' /\ FinishedIsGone'
    BY <1>1, <1>2, HidingKeeps
<1>7. ASSUME NEW i \in Items, i.receipt <= dequeues[i.copy] PROVE i.receipt <= dequeues'[i.copy]
    BY <1>1, <1>7, Hiding, Types
<1>8. ToBeMoved'
    <2> SUFFICES ASSUME NEW v \in Workers, NEW i \in batch'[v] \cup moving[v]
                 PROVE  MaxDequeueCount < i.receipt /\ i.receipt <= dequeues'[i.copy]
        BY <1>2 DEF ToBeMoved
    <2>1. CASE i \in batch[v] \cup moving[v]
        BY <1>7, <2>1, Types DEF ToBeMoved
    <2>2. CASE i \notin batch[v] \cup moving[v]
        <3>1. i \in ItemsOf(cs) /\ Exceeds(i)
            BY <1>4, <2>2
        <3>2. i.receipt \in Nat /\ MaxDequeueCount \in Nat
            BY <1>3, <3>1, Types
        <3> QED BY <1>3, <3>1, <3>2, SMT DEF Exceeds
    <2> QED BY <2>1, <2>2
<1>9. ToBeReturned'
    <2> SUFFICES ASSUME NEW v \in Workers, NEW i \in messages'[v] \cup held[v]
                 PROVE  i.receipt <= MaxDequeueCount /\ i.receipt <= dequeues'[i.copy]
        BY <1>2 DEF ToBeReturned
    <2>1. CASE i \in messages[v] \cup held[v]
        BY <1>7, <2>1, Types DEF ToBeReturned
    <2>2. CASE i \notin messages[v] \cup held[v]
        <3>1. i \in ItemsOf(cs) /\ ~Exceeds(i)
            BY <1>4, <2>2 DEF Kept
        <3>2. i.receipt \in Nat /\ MaxDequeueCount \in Nat
            BY <1>3, <3>1, Types
        <3> QED BY <1>3, <3>1, <3>2, SMT DEF Exceeds
    <2> QED BY <2>1, <2>2
<1>10. HandedInTime' /\ MovingIsSent'
    BY <1>2 DEF HandedInTime, MovingIsSent
<1>11. ReceivedIsTried'
    <2> SUFFICES ASSUME MaxDequeueCount # 0, NEW c \in Copies, dequeues'[c] # 0
                 PROVE  Tried(c)'
        BY DEF ReceivedIsTried
    <2>1. Tried(c) => Tried(c)'
        BY <1>2, <1>4 DEF Tried
    <2>2. CASE dequeues[c] # 0
        BY <2>1, <2>2 DEF ReceivedIsTried
    <2>3. CASE dequeues[c] = 0
        <3>1. c \in cs
            BY <1>1, <2>3, Hiding
        <3> DEFINE i == [copy |-> c, receipt |-> dequeues[c] + 1]
        <3>2. i \in ItemsOf(cs)
            BY <3>1 DEF ItemsOf
        <3>3. ~Exceeds(i)
            BY <2>3, Types, SMT DEF Exceeds
        <3>4. i \in messages'[w] /\ i.copy = c
            BY <1>4, <3>2, <3>3 DEF Kept
        <3> QED BY <3>4 DEF Tried
    <2> QED BY <2>2, <2>3
<1> QED BY <1>5, <1>6, <1>8, <1>9, <1>10, <1>11

\* What the end of a call leaves as it was: there is less to move and to return.
LEMMA EndingKeeps ==
    ASSUME IInv, NEW w \in Workers, CallOver(w),
           UNCHANGED <<dequeues, handed>>,
           \A v \in Workers : held'[v] \subseteq held[v],
           \A c \in dead : c \in dead'
    PROVE  ToBeMoved' /\ ToBeReturned' /\ HandedInTime' /\ MovingIsSent'
<1> USE DEF IInv
<1>1. \A v \in Workers : /\ batch'[v] \subseteq batch[v] /\ moving'[v] \subseteq moving[v]
                         /\ messages'[v] \subseteq messages[v]
    BY Ending
<1>2. ToBeMoved'
    BY <1>1 DEF ToBeMoved
<1>3. ToBeReturned'
    BY <1>1 DEF ToBeReturned
<1>4. HandedInTime' /\ MovingIsSent'
    BY <1>1 DEF HandedInTime, MovingIsSent
<1> QED BY <1>2, <1>3, <1>4

\* A failed receive may have hidden messages: they were tried (line 133).
LEMMA ReceiveThrowsStep == ASSUME IInv, NEW w \in Workers, ReceiveThrows(w) PROVE IInv'
<1> USE DEF IInv
<1>1. PICK cs \in Receivable(w) :
          /\ Hide(cs)
          /\ abandoned' = abandoned \cup cs \cup CopiesOf(messages[w])
    BY DEF ReceiveThrows
<1>2. /\ CallOver(w)
      /\ UNCHANGED <<dead, attempts, answer, held, handed, finished>>
    BY DEF ReceiveThrows, producer
<1>3. /\ cs \subseteq Copies
      /\ \A c \in Copies : c \notin cs => dequeues'[c] = dequeues[c]
      /\ place' \in [Copies -> {"none", "visible", "hidden", "deleted"}]
      /\ dequeues' \in [Copies -> 0 .. MaxReceives]
    BY <1>1, Hiding
<1>4. /\ pc' \in [Workers -> {"idle", "receive", "move"}] /\ kept' \in [Workers -> BOOLEAN]
      /\ batch' \in [Workers -> SUBSET Items] /\ moving' \in [Workers -> SUBSET Items]
      /\ messages' \in [Workers -> SUBSET Items]
      /\ \A v \in Workers : /\ batch'[v] \subseteq batch[v] /\ moving'[v] \subseteq moving[v]
                            /\ messages'[v] \subseteq messages[v]
                            /\ v # w => messages'[v] = messages[v]
    BY <1>2, Ending
<1>5. TypeOK'
    <2>1. CopiesOf(messages[w]) \subseteq Copies
        BY Types DEF CopiesOf
    <2>2. abandoned' \subseteq Copies
        BY <1>1, <1>3, <2>1 DEF TypeOK
    <2>3. held \in [Workers -> SUBSET Items]
        BY Types
    <2> QED BY <1>2, <1>3, <1>4, <2>2, <2>3 DEF TypeOK
<1>6. SendsLeft' /\ AcknowledgedNotLost' /\ DeadIsOver' /\ FinishedIsGone'
    BY <1>1, <1>2, HidingKeeps
<1>7. ASSUME NEW i \in Items, i.receipt <= dequeues[i.copy] PROVE i.receipt <= dequeues'[i.copy]
    BY <1>1, <1>7, Hiding, Types
<1>8. ToBeMoved' /\ ToBeReturned'
    BY <1>2, <1>4, <1>7, Types DEF ToBeMoved, ToBeReturned
<1>9. HandedInTime' /\ MovingIsSent'
    BY <1>2, <1>4 DEF HandedInTime, MovingIsSent
<1>10. ReceivedIsTried'
    <2> SUFFICES ASSUME MaxDequeueCount # 0, NEW c \in Copies, dequeues'[c] # 0
                 PROVE  Tried(c)'
        BY DEF ReceivedIsTried
    <2>1. CASE c \in cs
        BY <1>1, <2>1 DEF Tried
    <2>2. CASE c \notin cs
        <3>1. Tried(c)
            BY <1>3, <2>2 DEF ReceivedIsTried
        <3>2. CASE (\E i \in handed : i.copy = c) \/ c \in abandoned
            BY <1>1, <1>2, <3>2 DEF Tried
        <3>3. CASE \E i \in messages[w] : i.copy = c
            BY <1>1, <3>3 DEF Tried, CopiesOf
        <3>4. ASSUME NEW v \in Workers, v # w, \E i \in messages[v] : i.copy = c
              PROVE  Tried(c)'
            BY <1>4, <3>4 DEF Tried
        <3> QED BY <3>1, <3>2, <3>3, <3>4 DEF Tried
    <2> QED BY <2>1, <2>2
<1> QED BY <1>5, <1>6, <1>8, <1>9, <1>10

\* The caller takes over what the call collected (line 66).
LEMMA ReturnStep == ASSUME IInv, NEW w \in Workers, Return(w) PROVE IInv'
<1> USE DEF IInv
<1>1. /\ CallOver(w)
      /\ held' = [held EXCEPT ![w] = messages[w]]
      /\ handed' = handed \cup messages[w]
      /\ UNCHANGED <<place, dequeues, dead, attempts, answer, finished, abandoned>>
    BY DEF Return, queue, producer
<1>2. /\ pc' \in [Workers -> {"idle", "receive", "move"}] /\ kept' \in [Workers -> BOOLEAN]
      /\ batch' \in [Workers -> SUBSET Items] /\ moving' \in [Workers -> SUBSET Items]
      /\ messages' \in [Workers -> SUBSET Items]
      /\ \A v \in Workers : /\ batch'[v] \subseteq batch[v] /\ moving'[v] \subseteq moving[v]
                            /\ messages'[v] \subseteq messages[v]
                            /\ v # w => messages'[v] = messages[v]
    BY <1>1, Ending
<1>3. /\ held'[w] = messages[w] /\ \A v \in Workers : v # w => held'[v] = held[v]
      /\ held' \in [Workers -> SUBSET Items] /\ messages[w] \subseteq Items
    BY <1>1, Types
<1>4. TypeOK'
    BY <1>1, <1>2, <1>3 DEF TypeOK
<1>5. SendsLeft' /\ AcknowledgedNotLost' /\ FinishedIsGone' /\ DeadIsOver'
    BY <1>1 DEF SendsLeft, AcknowledgedNotLost, FinishedIsGone, DeadIsOver
<1>6. ToBeMoved' /\ MovingIsSent'
    BY <1>1, <1>2 DEF ToBeMoved, MovingIsSent
<1>7. ToBeReturned'
    BY <1>1, <1>2, <1>3 DEF ToBeReturned
<1>8. HandedInTime'
    BY <1>1 DEF HandedInTime, ToBeReturned
<1>9. ASSUME NEW c \in Copies, Tried(c) PROVE Tried(c)'
    <2>1. CASE (\E i \in handed : i.copy = c) \/ c \in abandoned
        BY <1>1, <2>1 DEF Tried
    <2>2. CASE \E i \in messages[w] : i.copy = c
        BY <1>1, <2>2 DEF Tried
    <2>3. ASSUME NEW v \in Workers, v # w, \E i \in messages[v] : i.copy = c
          PROVE  Tried(c)'
        BY <1>2, <2>3 DEF Tried
    <2> QED BY <1>9, <2>1, <2>2, <2>3 DEF Tried
<1>10. ReceivedIsTried'
    BY <1>1, <1>9 DEF ReceivedIsTried
<1> QED BY <1>4, <1>5, <1>6, <1>7, <1>8, <1>10

\* A copy goes to the dead queue before it is deleted (lines 143-144), and only if its
\* dequeue count has gone beyond that of every message that is finished.
LEMMA SendToDeadStep ==
    ASSUME IInv, NEW w \in Workers, NEW item \in batch[w], SendToDead(w, item)
    PROVE  IInv'
<1> USE DEF IInv
<1>1. /\ dead' = dead \cup {item.copy}
      /\ batch' = [batch EXCEPT ![w] = @ \ {item}]
      /\ moving' = [moving EXCEPT ![w] = {item}]
      /\ UNCHANGED <<place, dequeues, attempts, answer, pc, messages, kept, held,
                     handed, finished, abandoned>>
    BY DEF SendToDead, queue, producer, history
<1>2. /\ item \in Items /\ item.copy \in Copies /\ item.receipt \in Nat
      /\ MaxDequeueCount < item.receipt /\ item.receipt <= dequeues[item.copy]
    BY Types DEF ToBeMoved
<1>3. /\ batch' \in [Workers -> SUBSET Items] /\ moving' \in [Workers -> SUBSET Items]
      /\ batch'[w] = batch[w] \ {item} /\ moving'[w] = {item}
      /\ \A v \in Workers : v # w => batch'[v] = batch[v] /\ moving'[v] = moving[v]
    BY <1>1, <1>2, Types
<1>4. messages \in [Workers -> SUBSET Items] /\ held \in [Workers -> SUBSET Items]
    BY Types
<1>5. TypeOK'
    BY <1>1, <1>2, <1>3, <1>4 DEF TypeOK
<1>6. SendsLeft' /\ FinishedIsGone' /\ ToBeReturned' /\ HandedInTime' /\ ReceivedIsTried'
    BY <1>1 DEF SendsLeft, FinishedIsGone, ToBeReturned, HandedInTime, ReceivedIsTried, Tried
<1>7. AcknowledgedNotLost'
    BY <1>1, StayingSafe DEF Safe
<1>8. ToBeMoved'
    BY <1>1, <1>2, <1>3 DEF ToBeMoved
<1>9. MovingIsSent'
    BY <1>1, <1>3 DEF MovingIsSent
<1>10. DeadIsOver'
    <2>1. MaxDequeueCount < dequeues[item.copy]
        BY <1>2, Types, SMT
    <2> QED BY <1>1, <2>1 DEF DeadIsOver
<1> QED BY <1>5, <1>6, <1>7, <1>8, <1>9, <1>10

\* A send to the dead queue that throws may have had its effect.
LEMMA SendToDeadThrowsStep ==
    ASSUME IInv, NEW w \in Workers, NEW item \in batch[w], SendToDeadThrows(w, item)
    PROVE  IInv'
<1> USE DEF IInv
<1>1. PICK sent \in SUBSET {item.copy} : dead' = dead \cup sent
    BY DEF SendToDeadThrows
<1>2. /\ Abandon(w) /\ CallOver(w)
      /\ UNCHANGED <<place, dequeues, attempts, answer, held, handed, finished>>
    BY DEF SendToDeadThrows, Abandon, queue, producer
<1>3. /\ item.copy \in Copies /\ item.receipt \in Nat
      /\ MaxDequeueCount < item.receipt /\ item.receipt <= dequeues[item.copy]
    BY Types DEF ToBeMoved
<1>4. abandoned' \subseteq Copies /\ \A c \in Copies : Tried(c) => Tried(c)'
    BY <1>2, Abandoning
<1>5. TypeOK'
    <2>1. held \in [Workers -> SUBSET Items] /\ dead' \subseteq Copies
        BY <1>1, <1>3, Types DEF TypeOK
    <2> QED BY <1>2, <1>4, <2>1, Ending DEF TypeOK
<1>6. ToBeMoved' /\ ToBeReturned' /\ HandedInTime' /\ MovingIsSent'
    BY <1>1, <1>2, EndingKeeps
<1>7. SendsLeft' /\ FinishedIsGone'
    BY <1>2 DEF SendsLeft, FinishedIsGone
<1>8. AcknowledgedNotLost'
    BY <1>1, <1>2, StayingSafe DEF Safe
<1>9. DeadIsOver'
    <2>1. MaxDequeueCount < dequeues[item.copy]
        BY <1>3, Types, SMT
    <2> QED BY <1>1, <1>2, <2>1 DEF DeadIsOver
<1>10. ReceivedIsTried'
    BY <1>2, <1>4 DEF ReceivedIsTried
<1> QED BY <1>5, <1>6, <1>7, <1>8, <1>9, <1>10

\* What is deleted after the move is in the dead queue (line 144).
LEMMA DeleteMovedStep ==
    ASSUME IInv, NEW w \in Workers, NEW item \in moving[w], DeleteMoved(w, item)
    PROVE  IInv'
<1> USE DEF IInv
<1>1. /\ DeleteMaybe(item)
      /\ moving' = [moving EXCEPT ![w] = {}]
      /\ UNCHANGED <<dequeues, dead, attempts, answer, pc, batch, messages, kept, held,
                     handed, finished, abandoned>>
    BY DEF DeleteMoved, producer, history
<1>2. item \in Items /\ item.copy \in dead
    BY Types DEF MovingIsSent
<1>3. /\ moving' \in [Workers -> SUBSET Items]
      /\ \A v \in Workers : moving'[v] \subseteq moving[v]
    BY <1>1, Types
<1>4. /\ place' \in [Copies -> {"none", "visible", "hidden", "deleted"}]
      /\ \A c \in Copies : c # item.copy => place'[c] = place[c]
      /\ \A c \in Copies : place'[c] = place[c] \/ place'[c] = "deleted"
      /\ \A c \in Copies : place[c] = "none" => place'[c] = "none"
    BY <1>1, <1>2, Deleting
<1>5. TypeOK'
    <2>1. /\ batch \in [Workers -> SUBSET Items] /\ messages \in [Workers -> SUBSET Items]
          /\ held \in [Workers -> SUBSET Items]
        BY Types
    <2> QED BY <1>1, <1>3, <1>4, <2>1 DEF TypeOK
<1>6. SendsLeft'
    BY <1>1, <1>4 DEF SendsLeft, Copies
<1>7. AcknowledgedNotLost'
    BY <1>1, <1>2, <1>4, StayingSafe DEF Safe
<1>8. ToBeMoved' /\ ToBeReturned' /\ HandedInTime' /\ MovingIsSent' /\ DeadIsOver'
      /\ ReceivedIsTried'
    BY <1>1, <1>3 DEF ToBeMoved, ToBeReturned, HandedInTime, MovingIsSent, DeadIsOver,
                      ReceivedIsTried, Tried
<1>9. FinishedIsGone'
    BY <1>1, <1>4 DEF FinishedIsGone, TypeOK
<1> QED BY <1>5, <1>6, <1>7, <1>8, <1>9

\* A worker deletes a copy only with the receipt of its latest receive (lines 69-73).
LEMMA DeleteMessageStep ==
    ASSUME IInv, NEW w \in Workers, NEW item \in held[w], DeleteMessage(w, item)
    PROVE  IInv'
<1> USE DEF IInv
<1>1. /\ DeleteMaybe(item)
      /\ finished' = IF place' # place THEN finished \cup {item.copy} ELSE finished
      /\ held' = [held EXCEPT ![w] = @ \ {item}]
      /\ UNCHANGED <<dequeues, dead, attempts, answer, pc, batch, moving, messages, kept,
                     handed, abandoned>>
    BY DEF DeleteMessage, producer, call
<1>2. item \in Items /\ item.copy \in Copies /\ item.receipt <= MaxDequeueCount
    BY Types DEF ToBeReturned
<1>3. /\ held' \in [Workers -> SUBSET Items]
      /\ \A v \in Workers : held'[v] \subseteq held[v]
    BY <1>1, Types
<1>4. /\ place' \in [Copies -> {"none", "visible", "hidden", "deleted"}]
      /\ \A c \in Copies : c # item.copy => place'[c] = place[c]
      /\ \A c \in Copies : place'[c] = place[c] \/ place'[c] = "deleted"
      /\ \A c \in Copies : place[c] = "none" => place'[c] = "none"
      /\ place' # place => item.receipt = dequeues[item.copy] /\ place'[item.copy] = "deleted"
    BY <1>1, <1>2, Deleting
<1>5. TypeOK'
    <2>1. /\ batch \in [Workers -> SUBSET Items] /\ moving \in [Workers -> SUBSET Items]
          /\ messages \in [Workers -> SUBSET Items]
        BY Types
    <2>2. finished' \subseteq Copies
        BY <1>1, <1>2 DEF TypeOK
    <2> QED BY <1>1, <1>3, <1>4, <2>1, <2>2 DEF TypeOK
<1>6. SendsLeft'
    BY <1>1, <1>4 DEF SendsLeft, Copies
<1>7. AcknowledgedNotLost'
    BY <1>1, <1>2, <1>4, StayingSafe DEF Safe
<1>8. ToBeMoved' /\ ToBeReturned' /\ HandedInTime' /\ MovingIsSent' /\ DeadIsOver'
      /\ ReceivedIsTried'
    BY <1>1, <1>3 DEF ToBeMoved, ToBeReturned, HandedInTime, MovingIsSent, DeadIsOver,
                      ReceivedIsTried, Tried
<1>9. FinishedIsGone'
    <2>1. CASE place' = place
        BY <1>1, <2>1 DEF FinishedIsGone
    <2>2. CASE place' # place
        BY <1>1, <1>2, <1>4, <2>2 DEF FinishedIsGone, TypeOK
    <2> QED BY <2>1, <2>2
<1> QED BY <1>5, <1>6, <1>7, <1>8, <1>9

\* A worker that stops forgets what it had.
LEMMA WorkerStopsStep == ASSUME IInv, NEW w \in Workers, WorkerStops(w) PROVE IInv'
<1> USE DEF IInv
<1>1. /\ Abandon(w) /\ CallOver(w)
      /\ held' = [held EXCEPT ![w] = {}]
      /\ UNCHANGED <<place, dequeues, dead, attempts, answer, handed, finished>>
    BY DEF WorkerStops, Abandon, queue, producer
<1>2. /\ held' \in [Workers -> SUBSET Items]
      /\ \A v \in Workers : held'[v] \subseteq held[v]
    BY <1>1, Types
<1>3. abandoned' \subseteq Copies /\ \A c \in Copies : Tried(c) => Tried(c)'
    BY <1>1, Abandoning
<1>4. TypeOK'
    BY <1>1, <1>2, <1>3, Ending DEF TypeOK
<1>5. ToBeMoved' /\ ToBeReturned' /\ HandedInTime' /\ MovingIsSent'
    BY <1>1, <1>2, EndingKeeps
<1>6. SendsLeft' /\ AcknowledgedNotLost' /\ FinishedIsGone' /\ DeadIsOver'
    BY <1>1 DEF SendsLeft, AcknowledgedNotLost, FinishedIsGone, DeadIsOver
<1>7. ReceivedIsTried'
    BY <1>1, <1>3 DEF ReceivedIsTried
<1> QED BY <1>4, <1>5, <1>6, <1>7

\* Every step keeps the invariant: one lemma for each action.
LEMMA NextInv == IInv /\ [Next]_vars => IInv'
<1> SUFFICES ASSUME IInv, [Next]_vars PROVE IInv'
    OBVIOUS
<1>1. CASE \E m \in Messages : Create(m)
    BY <1>1, CreateStep
<1>2. CASE \E c \in Copies : Reappear(c)
    BY <1>2, ReappearStep
<1>3. ASSUME NEW w \in Workers, StartCall(w) PROVE IInv'
    BY <1>3, GoOnStep
<1>4. ASSUME NEW w \in Workers, CallStep(w) PROVE IInv'
    <2>1. CASE Receive(w)
        BY <2>1, ReceiveStep
    <2>2. CASE ReceiveThrows(w)
        BY <2>2, ReceiveThrowsStep
    <2>3. CASE NextBatch(w)
        BY <2>3, GoOnStep
    <2>4. CASE Return(w)
        BY <2>4, ReturnStep
    <2>5. CASE \E item \in batch[w] : SendToDead(w, item) \/ SendToDeadThrows(w, item)
        BY <2>5, SendToDeadStep, SendToDeadThrowsStep
    <2>6. CASE \E item \in moving[w] : DeleteMoved(w, item)
        BY <2>6, DeleteMovedStep
    <2> QED BY <1>4, <2>1, <2>2, <2>3, <2>4, <2>5, <2>6 DEF CallStep
<1>5. ASSUME NEW w \in Workers, \E item \in held[w] : DeleteMessage(w, item) PROVE IInv'
    BY <1>5, DeleteMessageStep
<1>6. ASSUME NEW w \in Workers, WorkerStops(w) PROVE IInv'
    BY <1>6, WorkerStopsStep
<1>7. CASE UNCHANGED vars
    <2>1. UNCHANGED <<place, dequeues, dead, attempts, answer, pc, batch, moving, messages, kept,
                      held, handed, finished, abandoned>>
        BY <1>7 DEF vars
    <2>2. TypeOK' /\ SendsLeft' /\ AcknowledgedNotLost' /\ ToBeMoved' /\ ToBeReturned'
        BY <2>1 DEF IInv, TypeOK, SendsLeft, AcknowledgedNotLost, ToBeMoved, ToBeReturned
    <2>3. HandedInTime' /\ MovingIsSent' /\ DeadIsOver' /\ FinishedIsGone' /\ ReceivedIsTried'
        BY <2>1 DEF IInv, HandedInTime, MovingIsSent, DeadIsOver, FinishedIsGone, ReceivedIsTried,
                    Tried
    <2> QED BY <2>2, <2>3 DEF IInv
<1> QED BY <1>1, <1>2, <1>3, <1>4, <1>5, <1>6, <1>7 DEF Next

LEMMA Invariance == Spec => []IInv
<1> QED BY InitInv, NextInv, PTL DEF Spec

-------------------------------------------------------------------------------
\* Every reachable state is well typed: no message is sent more than MaxAttempts times.
THEOREM TypeCorrect == Spec => []TypeOK
<1>1. IInv => TypeOK
    BY DEF IInv
<1> QED BY <1>1, Invariance, PTL

\* A message that createMessage() acknowledged is in the queue, in the dead queue, or
\* finished, whichever calls fail and whichever workers stop (queue.ts, lines 143-144).
THEOREM NothingAcknowledgedIsLost == Spec => []AcknowledgedNotLost
<1>1. IInv => AcknowledgedNotLost
    BY DEF IInv
<1> QED BY <1>1, Invariance, PTL

\* The workers together are handed a copy at most maxDequeueCount times (line 39), for
\* any number of workers, messages and receives.
THEOREM NotHandedTooOften == Spec => []HandedAtMost
<1>1. IInv => HandedAtMost
    <2> SUFFICES ASSUME IInv, NEW c \in Copies
                 PROVE  Cardinality({i \in handed : i.copy = c}) <= MaxDequeueCount
        BY DEF HandedAtMost
    <2> DEFINE S == {i \in handed : i.copy = c}
               f == [i \in S |-> i.receipt]
    <2>1. \A i \in S : i \in Items /\ i.copy = c /\ i.receipt \in 1 .. MaxDequeueCount
        <3> SUFFICES ASSUME NEW i \in handed
                     PROVE  i \in Items /\ i.receipt \in 1 .. MaxDequeueCount
            OBVIOUS
        <3>1. i \in Items /\ i.receipt <= MaxDequeueCount
            BY DEF IInv, TypeOK, HandedInTime
        <3>2. i.receipt \in 1 .. MaxReceives
            BY <3>1 DEF Items
        <3> QED BY <3>1, <3>2, BoundsAssumption, SMT
    <2>2. f \in [S -> 1 .. MaxDequeueCount]
        BY <2>1
    <2>3. ASSUME NEW i \in S, NEW j \in S, f[i] = f[j] PROVE i = j
        BY <2>1, <2>3 DEF Items
    <2>4. f \in Injection(S, 1 .. MaxDequeueCount)
        BY <2>2, <2>3, Fun_IsInj
    <2>5. MaxDequeueCount \in Nat
        BY BoundsAssumption
    <2>6. /\ IsFiniteSet(1 .. MaxDequeueCount)
          /\ Cardinality(1 .. MaxDequeueCount) = MaxDequeueCount
        BY <2>5, FS_Interval, SMT
    <2> HIDE DEF f
    <2>7. Cardinality(S) <= Cardinality(1 .. MaxDequeueCount)
        BY <2>4, <2>6, FS_Injection
    <2> QED BY <2>6, <2>7
<1> QED BY <1>1, Invariance, PTL

\* The dead queue holds just what failed (lines 39-40): a message that was received
\* before, and none that a worker has finished, if messages may be received at all.
THEOREM DeadQueueHoldsFailures ==
    ASSUME MaxDequeueCount # 0
    PROVE  Spec => []DeadHasFailed
<1>1. IInv => DeadHasFailed
    <2> SUFFICES ASSUME IInv PROVE DeadWasTried /\ FinishedIsNotDead
        BY DEF DeadHasFailed
    <2>1. FinishedIsNotDead
        <3> SUFFICES ASSUME NEW c \in finished, c \in dead PROVE FALSE
            BY DEF FinishedIsNotDead
        <3>1. dequeues[c] <= MaxDequeueCount /\ MaxDequeueCount < dequeues[c]
            BY DEF IInv, FinishedIsGone, DeadIsOver
        <3>2. dequeues[c] \in Nat /\ MaxDequeueCount \in Nat
            BY Types DEF IInv, TypeOK
        <3> QED BY <3>1, <3>2, SMT
    <2>2. DeadWasTried
        <3> SUFFICES ASSUME NEW c \in dead PROVE Tried(c)
            BY DEF DeadWasTried, Tried, CopiesOf
        <3>1. c \in Copies /\ MaxDequeueCount < dequeues[c]
            BY DEF IInv, TypeOK, DeadIsOver
        <3>2. dequeues[c] # 0
            BY <3>1, BoundsAssumption, SMT
        <3> QED BY <3>1, <3>2 DEF IInv, ReceivedIsTried
    <2> QED BY <2>1, <2>2
<1> QED BY <1>1, Invariance, PTL

-------------------------------------------------------------------------------
(***************************************************************************)
(* What makes every call of getMessagesWithTotalCount() end: it collects   *)
(* no more messages than it was asked for, and every batch that does not   *)
(* end it brings new ones.                                                 *)
(***************************************************************************)
\* What w has is no more than it asked for; and before another receive, messages are
\* missing, and none is to be moved.
NotTooMany(w) ==
    /\ IsFiniteSet(messages[w]) /\ Cardinality(messages[w]) <= TotalCount
    /\ IsFiniteSet(held[w]) /\ Cardinality(held[w]) <= TotalCount
    /\ pc[w] = "idle" => messages[w] = {}
    /\ pc[w] = "receive" => Cardinality(messages[w]) < TotalCount
    /\ pc[w] # "move" => batch[w] = {} /\ moving[w] = {}

\* The steps of a call: it ends, receives messages it did not have, moves one of its
\* batch in two steps, or begins another batch as some are missing.
CallAdvances(w) ==
    \/ pc'[w] = "idle"
    \/ /\ pc[w] = "receive" /\ pc'[w] = "move"
       /\ kept'[w] => Cardinality(messages[w]) < Cardinality(messages'[w])
    \/ /\ pc[w] = "move" /\ pc'[w] = "move"
       /\ messages'[w] = messages[w] /\ kept'[w] = kept[w]
       /\ \/ batch'[w] \subseteq batch[w] /\ batch'[w] # batch[w]
          \/ batch'[w] = batch[w] /\ moving[w] # {} /\ moving'[w] = {}
    \/ /\ pc[w] = "move" /\ pc'[w] = "receive"
       /\ messages'[w] = messages[w]
       /\ kept[w] /\ Cardinality(messages[w]) < TotalCount

CallRests(w) ==
    /\ pc'[w] = pc[w] /\ batch'[w] = batch[w] /\ moving'[w] = moving[w]
    /\ messages'[w] = messages[w] /\ kept'[w] = kept[w]

\* What a call that has not ended can do next if nothing fails.
CallGoesOn(w) ==
    \/ pc[w] = "receive" /\ {} \in Receivable(w)
    \/ pc[w] = "move" /\ moving[w] = {} /\ batch[w] # {}
    \/ moving[w] # {}
    \/ Moved(w)

LEMMA TotalIsNat == TotalCount \in Nat \ {0}
BY BoundsAssumption

\* Messages of a receive are new to the call: the receipts it has are older.
LEMMA BatchIsNew ==
    ASSUME IInv, IsFiniteSet(Messages), NEW w \in Workers, NEW cs \in Receivable(w),
           IsFiniteSet(messages[w]), NEW items,
           items = {[copy |-> c, receipt |-> dequeues[c] + 1] : c \in cs}
    PROVE  /\ IsFiniteSet(messages[w] \cup Kept(items))
           /\ Kept(items) # {} =>
                  Cardinality(messages[w]) < Cardinality(messages[w] \cup Kept(items))
           /\ Cardinality(messages[w]) <= TotalCount =>
                  Cardinality(messages[w] \cup Kept(items)) <= TotalCount
<1>1. /\ cs \subseteq Copies /\ Cardinality(cs) <= TotalCount - Cardinality(messages[w])
    BY DEF Receivable
<1>2. IsFiniteSet(cs)
    <2>1. IsFiniteSet(1 .. MaxAttempts)
        BY FS_Interval, BoundsAssumption
    <2>2. IsFiniteSet(Copies)
        BY <2>1, FS_Product DEF Copies
    <2> QED BY <1>1, <2>2, FS_Subset
<1>3. \A i \in Kept(items) : /\ i.copy \in cs
                             /\ i = [copy |-> i.copy, receipt |-> dequeues[i.copy] + 1]
    BY DEF Kept
<1> DEFINE f == [i \in Kept(items) |-> i.copy]
<1>4. f \in Injection(Kept(items), cs)
    <2>1. f \in [Kept(items) -> cs]
        BY <1>3
    <2>2. ASSUME NEW i \in Kept(items), NEW j \in Kept(items), f[i] = f[j] PROVE i = j
        <3>1. i.copy = j.copy
            BY <2>2
        <3> QED BY <1>3, <3>1
    <2> QED BY <2>1, <2>2, Fun_IsInj
<1> HIDE DEF f
<1>5. IsFiniteSet(Kept(items)) /\ Cardinality(Kept(items)) <= Cardinality(cs)
    BY <1>2, <1>4, FS_Injection
<1>6. messages[w] \cap Kept(items) = {}
    <2> SUFFICES ASSUME NEW i \in messages[w], i \in Kept(items) PROVE FALSE
        OBVIOUS
    <2>1. i.copy \in Copies /\ i.receipt = dequeues[i.copy] + 1
        BY <1>1, <1>3
    <2>2. i.receipt <= dequeues[i.copy]
        BY DEF IInv, ToBeReturned
    <2>3. dequeues[i.copy] \in Nat
        BY <2>1, Types DEF IInv
    <2> QED BY <2>1, <2>2, <2>3, SMT
<1>7. /\ IsFiniteSet(messages[w] \cup Kept(items))
      /\ Cardinality(messages[w] \cup Kept(items))
             = Cardinality(messages[w]) + Cardinality(Kept(items)) - Cardinality({})
    BY <1>5, <1>6, FS_Union
<1>8. /\ Cardinality(messages[w]) \in Nat /\ Cardinality(Kept(items)) \in Nat
      /\ Cardinality(cs) \in Nat /\ Cardinality({}) = 0
      /\ Kept(items) # {} => Cardinality(Kept(items)) # 0
    BY <1>2, <1>5, FS_CardinalityType, FS_EmptySet
<1> QED BY <1>1, <1>5, <1>7, <1>8, TotalIsNat, SMT

\* The calls of other workers rest.
LEMMA OthersRest ==
    ASSUME TypeOK, NEW w \in Workers,
           CallStep(w) \/ StartCall(w) \/ WorkerStops(w)
    PROVE  \A v \in Workers : v # w => CallRests(v) /\ held'[v] = held[v]
<1> USE DEF CallRests, TypeOK
<1>1. CASE StartCall(w) \/ NextBatch(w)
    BY <1>1 DEF StartCall, NextBatch
<1>2. CASE WorkerStops(w) \/ Return(w) \/ ReceiveThrows(w)
    BY <1>2, Types DEF WorkerStops, Return, ReceiveThrows, Abandon, CallOver
<1>3. CASE Receive(w)
    BY <1>3, Types DEF Receive
<1>4. CASE \E item \in batch[w] : SendToDead(w, item) \/ SendToDeadThrows(w, item)
    BY <1>4, Types DEF SendToDead, SendToDeadThrows, Abandon, CallOver
<1>5. CASE \E item \in moving[w] : DeleteMoved(w, item)
    BY <1>5, Types DEF DeleteMoved
<1> QED BY <1>1, <1>2, <1>3, <1>4, <1>5 DEF CallStep

\* The end of a call, which holds what it returns or nothing more.
LEMMA CallEnds ==
    ASSUME TypeOK, NEW w \in Workers, NotTooMany(w), CallOver(w),
           held'[w] \in {held[w], messages[w], {}}
    PROVE  NotTooMany(w)' /\ CallAdvances(w)
<1>1. /\ pc'[w] = "idle" /\ batch'[w] = {} /\ moving'[w] = {} /\ messages'[w] = {}
    BY Types DEF CallOver, TypeOK
<1>2. IsFiniteSet({}) /\ Cardinality({}) = 0 /\ 0 <= TotalCount
    BY FS_EmptySet, TotalIsNat
<1>3. IsFiniteSet(held'[w]) /\ Cardinality(held'[w]) <= TotalCount
    BY <1>2 DEF NotTooMany
<1> QED BY <1>1, <1>2, <1>3 DEF NotTooMany, CallAdvances

LEMMA ReceiveAdvances ==
    ASSUME IInv, IsFiniteSet(Messages), NEW w \in Workers, NotTooMany(w), Receive(w)
    PROVE  NotTooMany(w)' /\ CallAdvances(w)
<1>1. PICK cs \in Receivable(w) :
          LET items == {[copy |-> c, receipt |-> dequeues[c] + 1] : c \in cs}
          IN  /\ messages' = [messages EXCEPT ![w] = @ \cup Kept(items)]
              /\ kept' = [kept EXCEPT ![w] = Kept(items) # {}]
    BY DEF Receive
<1> DEFINE items == {[copy |-> c, receipt |-> dequeues[c] + 1] : c \in cs}
<1>2. pc[w] = "receive" /\ pc'[w] = "move" /\ held' = held
    BY DEF Receive, IInv, TypeOK
<1>3. /\ messages'[w] = messages[w] \cup Kept(items)
      /\ kept'[w] <=> Kept(items) # {}
    BY <1>1, Types DEF IInv, TypeOK
<1>4. /\ IsFiniteSet(messages'[w])
      /\ Kept(items) # {} => Cardinality(messages[w]) < Cardinality(messages'[w])
      /\ Cardinality(messages'[w]) <= TotalCount
    BY <1>1, <1>3, BatchIsNew DEF NotTooMany
<1> QED BY <1>2, <1>3, <1>4 DEF NotTooMany, CallAdvances

LEMMA CallStepAdvances ==
    ASSUME IInv, IsFiniteSet(Messages), NEW w \in Workers, NotTooMany(w), CallStep(w)
    PROVE  NotTooMany(w)' /\ CallAdvances(w)
<1> USE DEF IInv
<1>1. CASE Receive(w)
    BY <1>1, ReceiveAdvances
<1>2. CASE ReceiveThrows(w) \/ Return(w)
    <2>1. CallOver(w) /\ held'[w] \in {held[w], messages[w]}
        BY <1>2, Types DEF ReceiveThrows, Return
    <2> QED BY <2>1, CallEnds
<1>3. CASE NextBatch(w)
    <2>1. /\ pc[w] = "move" /\ pc'[w] = "receive" /\ batch[w] = {} /\ moving[w] = {}
          /\ kept[w] /\ Cardinality(messages[w]) < TotalCount
          /\ UNCHANGED <<batch, moving, messages, held>>
        BY <1>3 DEF NextBatch, Moved, More, TypeOK
    <2> QED BY <2>1 DEF NotTooMany, CallAdvances
<1>4. ASSUME NEW item \in batch[w], SendToDead(w, item)
      PROVE  NotTooMany(w)' /\ CallAdvances(w)
    <2>1. /\ pc[w] = "move" /\ batch'[w] = batch[w] \ {item}
          /\ UNCHANGED <<pc, messages, kept, held>>
        BY <1>4, Types DEF SendToDead
    <2> QED BY <1>4, <2>1 DEF NotTooMany, CallAdvances
<1>5. ASSUME NEW item \in batch[w], SendToDeadThrows(w, item)
      PROVE  NotTooMany(w)' /\ CallAdvances(w)
    <2>1. CallOver(w) /\ held' = held
        BY <1>5 DEF SendToDeadThrows, Abandon
    <2> QED BY <2>1, CallEnds
<1>6. ASSUME NEW item \in moving[w], DeleteMoved(w, item)
      PROVE  NotTooMany(w)' /\ CallAdvances(w)
    <2>1. /\ moving[w] # {} /\ moving'[w] = {}
          /\ UNCHANGED <<pc, batch, messages, kept, held>>
        BY <1>6, Types DEF DeleteMoved
    <2>2. pc[w] = "move"
        BY <2>1 DEF NotTooMany
    <2> QED BY <2>1, <2>2 DEF NotTooMany, CallAdvances
<1> QED BY <1>1, <1>2, <1>3, <1>4, <1>5, <1>6 DEF CallStep

LEMMA OtherStepsKeep ==
    ASSUME TypeOK, NEW w \in Workers, NotTooMany(w)
    PROVE  /\ StartCall(w) => NotTooMany(w)' /\ pc[w] = "idle"
           /\ WorkerStops(w) => NotTooMany(w)' /\ CallAdvances(w)
<1>1. ASSUME StartCall(w) PROVE NotTooMany(w)' /\ pc[w] = "idle"
    <2>1. /\ pc[w] = "idle" /\ pc'[w] = "receive"
          /\ UNCHANGED <<batch, moving, messages, held>>
        BY <1>1 DEF StartCall, TypeOK
    <2>2. Cardinality({}) = 0 /\ 0 < TotalCount
        BY FS_EmptySet, TotalIsNat
    <2> QED BY <2>1, <2>2 DEF NotTooMany
<1>2. ASSUME WorkerStops(w) PROVE NotTooMany(w)' /\ CallAdvances(w)
    <2>1. CallOver(w) /\ held'[w] = {}
        BY <1>2, Types DEF WorkerStops, Abandon
    <2> QED BY <2>1, CallEnds
<1> QED BY <1>1, <1>2

LEMMA DeleteMessageKeeps ==
    ASSUME TypeOK, NEW w \in Workers, NEW item \in held[w], DeleteMessage(w, item),
           \A v \in Workers : NotTooMany(v)
    PROVE  \A v \in Workers : NotTooMany(v)' /\ CallRests(v)
<1>1. UNCHANGED <<pc, batch, moving, messages, kept>>
    BY DEF DeleteMessage, call
<1>2. ASSUME NEW v \in Workers
      PROVE  IsFiniteSet(held'[v]) /\ Cardinality(held'[v]) <= TotalCount
    <2>1. held'[v] \in SUBSET held[v]
        BY Types DEF DeleteMessage
    <2>2. IsFiniteSet(held[v]) /\ Cardinality(held[v]) <= TotalCount
        BY DEF NotTooMany
    <2>3. IsFiniteSet(held'[v]) /\ Cardinality(held'[v]) <= Cardinality(held[v])
        BY <2>1, <2>2, FS_Subset
    <2>4. Cardinality(held'[v]) \in Nat /\ Cardinality(held[v]) \in Nat
        BY <2>2, <2>3, FS_CardinalityType
    <2> QED BY <2>2, <2>3, <2>4, TotalIsNat, SMT
<1> QED BY <1>1, <1>2 DEF NotTooMany, CallRests

LEMMA CallsInductive ==
    ASSUME IInv, IsFiniteSet(Messages), \A w \in Workers : NotTooMany(w), [Next]_vars
    PROVE  /\ \A w \in Workers : NotTooMany(w)'
           /\ \A w \in Workers : CallRests(w) \/ pc[w] = "idle" \/ CallAdvances(w)
           /\ \A w \in Workers : CallStep(w) => CallAdvances(w)
<1> DEFINE Goal == \A w \in Workers :
              NotTooMany(w)' /\ (CallRests(w) \/ pc[w] = "idle" \/ CallAdvances(w))
<1>1. ASSUME NEW w \in Workers, CallStep(w) \/ StartCall(w) \/ WorkerStops(w)
      PROVE  Goal
    <2>1. NotTooMany(w)' /\ (pc[w] = "idle" \/ CallAdvances(w))
        BY <1>1, CallStepAdvances, OtherStepsKeep DEF IInv
    <2>2. ASSUME NEW v \in Workers, v # w PROVE NotTooMany(v)' /\ CallRests(v)
        <3>1. CallRests(v) /\ held'[v] = held[v]
            BY <1>1, <2>2, OthersRest DEF IInv
        <3> QED BY <3>1 DEF NotTooMany, CallRests
    <2> QED BY <2>1, <2>2
<1>2. ASSUME NEW w \in Workers, NEW item \in held[w], DeleteMessage(w, item) PROVE Goal
    BY <1>2, DeleteMessageKeeps DEF IInv
<1>3. ASSUME UNCHANGED <<pc, batch, moving, messages, kept, held>> PROVE Goal
    BY <1>3 DEF NotTooMany, CallRests
<1>4. ASSUME \/ \E m \in Messages : Create(m)
             \/ \E c \in Copies : Reappear(c)
             \/ UNCHANGED vars
      PROVE  UNCHANGED <<pc, batch, moving, messages, kept, held>>
    BY <1>4 DEF Create, SendSucceeds, SendFails, Reappear, vars, call
<1> HIDE DEF Goal
<1>5. Goal
    BY <1>1, <1>2, <1>3, <1>4 DEF Next
<1>6. \A w \in Workers : CallStep(w) => CallAdvances(w)
    BY CallStepAdvances
<1> QED BY <1>5, <1>6 DEF Goal

LEMMA CallsInit == Init => \A w \in Workers : NotTooMany(w)
BY FS_EmptySet, TotalIsNat DEF Init, NotTooMany

\* A call of getMessagesWithTotalCount() collects, and a worker holds, no more messages
\* than it asked for, and getMessages() is never asked for 0 messages (lines 53-67);
\* and the call can always go on until it returns.
THEOREM NoMoreThanAsked ==
    ASSUME IsFiniteSet(Messages)
    PROVE  Spec => []\A w \in Workers :
                        NotTooMany(w) /\ (pc[w] # "idle" => CallGoesOn(w))
<1>1. IInv /\ (\A w \in Workers : NotTooMany(w)) /\ [Next]_vars
          => (\A w \in Workers : NotTooMany(w))'
    BY CallsInductive
<1>2. IInv /\ (\A w \in Workers : NotTooMany(w))
          => \A w \in Workers : NotTooMany(w) /\ (pc[w] # "idle" => CallGoesOn(w))
    <2> SUFFICES ASSUME IInv, NEW w \in Workers, NotTooMany(w), pc[w] # "idle"
                 PROVE  CallGoesOn(w)
        OBVIOUS
    <2>1. CASE pc[w] = "receive"
        <3>1. /\ Cardinality({}) = 0 /\ 0 <= MaxBatch
              /\ Cardinality(messages[w]) \in Nat /\ Cardinality(messages[w]) < TotalCount
            BY <2>1, FS_EmptySet, FS_CardinalityType, BoundsAssumption DEF NotTooMany
        <3>2. 0 <= TotalCount - Cardinality(messages[w])
            BY <3>1, TotalIsNat, SMT
        <3> QED BY <2>1, <3>1, <3>2 DEF CallGoesOn, Receivable
    <2>2. CASE pc[w] = "move"
        BY <2>2 DEF CallGoesOn, Moved
    <2> QED BY <2>1, <2>2 DEF IInv, TypeOK
<1> QED BY <1>1, <1>2, CallsInit, Invariance, PTL DEF Spec

\* Every step of a call leads on, and no step of others or of the service takes it back:
\* a batch that is not the last one brings messages which the call did not have (line
\* 60), whose number is bounded by NoMoreThanAsked. So a call ends after finitely many
\* steps of its own, however many messages there are to be moved.
THEOREM CallsGoForward ==
    ASSUME IsFiniteSet(Messages)
    PROVE  Spec => [][\A w \in Workers :
                        /\ CallRests(w) \/ pc[w] = "idle" \/ CallAdvances(w)
                        /\ CallStep(w) => CallAdvances(w)]_vars
<1>1. IInv /\ (\A w \in Workers : NotTooMany(w)) /\ [Next]_vars
          => /\ (\A w \in Workers : NotTooMany(w))'
             /\ \A w \in Workers :
                    /\ CallRests(w) \/ pc[w] = "idle" \/ CallAdvances(w)
                    /\ CallStep(w) => CallAdvances(w)
    BY CallsInductive
<1> QED BY <1>1, CallsInit, Invariance, PTL DEF Spec

-------------------------------------------------------------------------------
\* The credential. Lines are those of credentials/azure-managed-credential.ts.

Asks(c) == stage[c] \in {"asking", "answered"}

\* The mutex is taken by the caller that asks IMDS, and by no other.
MutexInv == \A c \in Callers : Asks(c) <=> mutex = c

\* A token that a caller has is one of the resource the caller asked for.
TokenInv ==
    \A c \in Callers :
        /\ stage[c] \in {"answered", "done"} => token[c].resource = resource[c]
        /\ stage[c] = "answered" => now \in token[c].issued .. token[c].issued + MaxDelay

CacheInv ==
    \A r \in Resources : cache[r] # NoToken =>
        /\ cache[r].resource = r
        /\ ttl[r] = cache[r].expiresIn - Margin
        /\ storedAt[r] <= cache[r].issued + MaxDelay

AskInv == \A c \in Callers : stage[c] = "asking" => ~Live(resource[c])

CredentialInv == CredentialTypeOK /\ MutexInv /\ TokenInv /\ CacheInv /\ AskInv

-------------------------------------------------------------------------------
\* What IMDS answers (ImdsToken, lines 11-19).
LEMMA TokenFields ==
    ASSUME NEW t \in Tokens
    PROVE  /\ t.resource \in Resources
           /\ t.issued \in Nat
           /\ t.expiresIn \in Lifetimes
           /\ t.expiresIn \in Nat
<1>1. /\ t.resource \in Resources
      /\ t.issued \in 0 .. MaxTime
      /\ t.expiresIn \in Lifetimes
    BY DEF Tokens
<1>2. Lifetimes \subseteq Nat /\ MaxTime \in Nat
    BY LifetimesAssumption
<1>3. t.issued \in Nat
    BY <1>1, <1>2, SMT
<1>4. t.expiresIn \in Nat
    BY <1>1, <1>2
<1> QED BY <1>1, <1>3, <1>4

\* The invariant holds in the initial state (the constructor, lines 38-47).
LEMMA CredentialInitInv == CredentialInit => CredentialInv
<1> SUFFICES ASSUME CredentialInit PROVE CredentialInv
    OBVIOUS
<1>1. CredentialTypeOK
    BY LifetimesAssumption, NoTokenAssumption, SMT DEF CredentialInit, CredentialTypeOK
<1>2. MutexInv /\ TokenInv /\ CacheInv /\ AskInv
    BY NobodyAssumption, SMT DEF CredentialInit, MutexInv, Asks, TokenInv, CacheInv, AskInv
<1> QED BY <1>1, <1>2 DEF CredentialInv

\* Time passes: an answer under way does not get older than MaxDelay.
LEMMA TickStep == CredentialInv /\ Tick => CredentialInv'
<1> SUFFICES ASSUME CredentialInv, Tick PROVE CredentialInv'
    OBVIOUS
<1> USE DEF CredentialInv
<1>1. CredentialTypeOK'
    BY LifetimesAssumption, SMT DEF CredentialTypeOK, Tick, tokenCache
<1>2. MutexInv' /\ CacheInv'
    BY SMT DEF MutexInv, Asks, CacheInv, Tick, tokenCache
<1>3. TokenInv'
    <2> SUFFICES ASSUME NEW c \in Callers, stage[c] = "answered"
                 PROVE  now' \in token[c].issued .. token[c].issued + MaxDelay
        BY SMT DEF TokenInv, Tick
    <2>1. token[c] \in Tokens /\ now \in Nat
        BY SMT DEF CredentialTypeOK
    <2>2. token[c].issued \in Nat /\ MaxDelay \in Nat
        BY <2>1, LifetimesAssumption, SMT DEF Tokens
    <2>3. now < token[c].issued + MaxDelay /\ now' = now + 1
        BY SMT DEF Tick
    <2>4. now \in token[c].issued .. token[c].issued + MaxDelay
        BY SMT DEF TokenInv
    <2> QED BY <2>1, <2>2, <2>3, <2>4, SMT
<1>4. AskInv'
    <2> SUFFICES ASSUME NEW c \in Callers, stage[c] = "asking"
                 PROVE  ~Live(resource[c])'
        BY SMT DEF AskInv, Tick
    <2>1. /\ resource[c] \in Resources
          /\ ttl[resource[c]] \in Int
          /\ storedAt[resource[c]] \in Nat
          /\ now \in Nat
        BY SMT DEF CredentialTypeOK
    <2>2. ~Live(resource[c])
        BY DEF AskInv
    <2> QED BY <2>1, <2>2, SMT DEF Live, Tick, tokenCache
<1> QED BY <1>1, <1>2, <1>3, <1>4

\* A call starts: only what its own caller asks for changes.
LEMMA GetTokenStep == \A c \in Callers : CredentialInv /\ GetToken(c) => CredentialInv'
<1> SUFFICES ASSUME NEW c \in Callers, CredentialInv, GetToken(c) PROVE CredentialInv'
    OBVIOUS
<1> USE DEF CredentialInv
<1>0. PICK r \in Resources : resource' = [resource EXCEPT ![c] = r]
    BY DEF GetToken
<1>1. CredentialTypeOK'
    BY <1>0, NoTokenAssumption, SMT DEF CredentialTypeOK, GetToken, tokenCache
<1>2. MutexInv'
    BY SMT DEF CredentialTypeOK, MutexInv, Asks, GetToken
<1>3. TokenInv'
    BY <1>0, SMT DEF CredentialTypeOK, TokenInv, GetToken
<1>4. CacheInv'
    BY SMT DEF CacheInv, GetToken, tokenCache
<1>5. AskInv'
    BY <1>0, SMT DEF CredentialTypeOK, AskInv, Live, GetToken, tokenCache
<1> QED BY <1>1, <1>2, <1>3, <1>4, <1>5

\* A caller gets the token from the cache.
LEMMA HitStep == \A c \in Callers : CredentialInv /\ Hit(c) => CredentialInv'
<1> SUFFICES ASSUME NEW c \in Callers, CredentialInv, Hit(c) PROVE CredentialInv'
    OBVIOUS
<1> USE DEF CredentialInv
<1>0. resource[c] \in Resources /\ cache[resource[c]] \in Tokens
    BY SMT DEF CredentialTypeOK, Hit, Live
<1>1. CredentialTypeOK'
    BY <1>0, NoTokenAssumption, SMT DEF CredentialTypeOK, Hit, Enter, tokenCache
<1>2. MutexInv'
    BY SMT DEF CredentialTypeOK, MutexInv, Asks, Hit, Enter
<1>3. TokenInv'
    BY <1>0, SMT DEF CredentialTypeOK, TokenInv, CacheInv, Hit, Live
<1>4. CacheInv'
    BY SMT DEF CacheInv, Hit, tokenCache
<1>5. AskInv'
    BY SMT DEF CredentialTypeOK, AskInv, Live, Hit, tokenCache
<1> QED BY <1>1, <1>2, <1>3, <1>4, <1>5

\* A caller takes the mutex and asks IMDS.
LEMMA MissStep == \A c \in Callers : CredentialInv /\ Miss(c) => CredentialInv'
<1> SUFFICES ASSUME NEW c \in Callers, CredentialInv, Miss(c) PROVE CredentialInv'
    OBVIOUS
<1> USE DEF CredentialInv
<1>1. CredentialTypeOK'
    BY NoTokenAssumption, SMT DEF CredentialTypeOK, Miss, Enter, tokenCache
<1>2. MutexInv'
    BY NobodyAssumption, SMT DEF CredentialTypeOK, MutexInv, Asks, Miss, Enter
<1>3. TokenInv'
    BY SMT DEF CredentialTypeOK, TokenInv, Miss, Enter
<1>4. CacheInv'
    BY SMT DEF CacheInv, Miss, tokenCache
<1>5. AskInv'
    BY SMT DEF CredentialTypeOK, AskInv, Live, Miss, tokenCache
<1> QED BY <1>1, <1>2, <1>3, <1>4, <1>5

\* IMDS answers.
LEMMA AnswerStep == \A c \in Callers : CredentialInv /\ Answer(c) => CredentialInv'
<1> SUFFICES ASSUME NEW c \in Callers, CredentialInv, Answer(c) PROVE CredentialInv'
    OBVIOUS
<1> USE DEF CredentialInv
<1>0. PICK l \in Lifetimes :
          token' = [token EXCEPT ![c] =
                      [resource |-> resource[c], issued |-> now, expiresIn |-> l]]
    BY DEF Answer
<1> DEFINE t == [resource |-> resource[c], issued |-> now, expiresIn |-> l]
<1>1. t \in Tokens /\ now \in Nat
    BY LifetimesAssumption, SMT DEF CredentialTypeOK, Tokens
<1>2. CredentialTypeOK'
    BY <1>0, <1>1, NoTokenAssumption, SMT DEF CredentialTypeOK, Answer, tokenCache
<1>3. MutexInv'
    BY SMT DEF CredentialTypeOK, MutexInv, Asks, Answer
<1>4. TokenInv'
    <2>1. /\ token'[c].resource = resource'[c]
          /\ now' \in token'[c].issued .. token'[c].issued + MaxDelay
        BY <1>0, <1>1, LifetimesAssumption, SMT DEF CredentialTypeOK, Answer
    <2>2. \A d \in Callers \ {c} : token'[d] = token[d] /\ stage'[d] = stage[d]
        BY <1>0, SMT DEF CredentialTypeOK, Answer
    <2> QED BY <2>1, <2>2, SMT DEF TokenInv, Answer
<1>5. CacheInv'
    BY SMT DEF CacheInv, Answer, tokenCache
<1>6. AskInv'
    BY SMT DEF CredentialTypeOK, AskInv, Live, Answer, tokenCache
<1> QED BY <1>2, <1>3, <1>4, <1>5, <1>6

\* The answer arrives: the token is cached under the resource it was asked for, with
\* the margin taken off, and no other caller is asking.
LEMMA StoreTokenStep == \A c \in Callers : CredentialInv /\ StoreToken(c) => CredentialInv'
<1> SUFFICES ASSUME NEW c \in Callers, CredentialInv, StoreToken(c) PROVE CredentialInv'
    OBVIOUS
<1> USE DEF CredentialInv
<1>0. /\ token[c] \in Tokens
      /\ token[c].resource = resource[c]
      /\ now <= token[c].issued + MaxDelay
    <2>1. token[c] \in Tokens /\ now \in Nat
        BY SMT DEF CredentialTypeOK, StoreToken
    <2>2. now \in token[c].issued .. token[c].issued + MaxDelay
        BY SMT DEF TokenInv, StoreToken
    <2> QED BY <2>1, <2>2, SMT DEF TokenInv, StoreToken
<1>1. TimeToLive(token[c]) \in Int
    BY <1>0, TokenFields, SMT DEF TimeToLive, Margin
<1>2. CredentialTypeOK'
    <2>1. /\ cache' \in [Resources -> Tokens \cup {NoToken}]
          /\ ttl' \in [Resources -> Int]
          /\ storedAt' \in [Resources -> 0 .. MaxTime]
        BY <1>0, <1>1, SMT DEF CredentialTypeOK, StoreToken
    <2> QED BY <2>1, SMT DEF CredentialTypeOK, StoreToken
<1>3. MutexInv'
    BY NobodyAssumption, SMT DEF CredentialTypeOK, MutexInv, Asks, StoreToken
<1>4. TokenInv'
    BY <1>0, SMT DEF CredentialTypeOK, TokenInv, StoreToken
<1>5. CacheInv'
    BY <1>0, SMT DEF CacheInv, StoreToken, Key, TimeToLive
<1>6. AskInv'
    <2>1. \A d \in Callers : stage'[d] # "asking"
        BY SMT DEF CredentialTypeOK, MutexInv, Asks, StoreToken
    <2> QED BY <2>1 DEF AskInv
<1> QED BY <1>2, <1>3, <1>4, <1>5, <1>6

\* The request fails, and the mutex is released.
LEMMA FailStep == \A c \in Callers : CredentialInv /\ Fail(c) => CredentialInv'
<1> SUFFICES ASSUME NEW c \in Callers, CredentialInv, Fail(c) PROVE CredentialInv'
    OBVIOUS
<1> USE DEF CredentialInv
<1>1. CredentialTypeOK'
    BY NoTokenAssumption, SMT DEF CredentialTypeOK, Fail, tokenCache
<1>2. MutexInv'
    BY NobodyAssumption, SMT DEF CredentialTypeOK, MutexInv, Asks, Fail
<1>3. TokenInv'
    BY SMT DEF CredentialTypeOK, TokenInv, Fail
<1>4. CacheInv'
    BY SMT DEF CacheInv, Fail, tokenCache
<1>5. AskInv'
    BY SMT DEF CredentialTypeOK, AskInv, Live, Fail, tokenCache
<1> QED BY <1>1, <1>2, <1>3, <1>4, <1>5

\* A step that changes nothing.
LEMMA Stutter == CredentialInv /\ UNCHANGED credentialVars => CredentialInv'
BY SMT DEF CredentialInv, CredentialTypeOK, MutexInv, Asks, TokenInv, CacheInv, AskInv,
    Live, credentialVars, tokenCache

\* CredentialInv is inductive.
THEOREM CredentialInvariance == CredentialSpec => []CredentialInv
<1>1. CredentialInit => CredentialInv
    BY CredentialInitInv
<1>2. CredentialInv /\ [CredentialNext]_credentialVars => CredentialInv'
    BY TickStep, GetTokenStep, HitStep, MissStep, AnswerStep, StoreTokenStep, FailStep,
       Stutter DEF CredentialNext
<1> QED BY <1>1, <1>2, PTL DEF CredentialSpec

-------------------------------------------------------------------------------
\* The type invariant (the state of the credential, lines 38-47): a call that is done
\* has a token.
THEOREM CredentialTypeCorrect == CredentialSpec => []CredentialTypeOK
BY CredentialInvariance, PTL DEF CredentialInv

\* getToken() runs one request to IMDS at a time (lines 50-52): the caller that asks
\* holds the mutex. getMsiToken() looks up the cache inside the mutex (lines 61-64): no
\* request for a token that is in the cache.
THEOREM CallsAreNeeded == CredentialSpec => []OneNeededCall
<1>1. CredentialInv => OneNeededCall
    BY SMT DEF CredentialInv, AskInv, MutexInv, Asks, OneNeededCall
<1> QED BY <1>1, CredentialInvariance, PTL

\* The key of the cache names the resource (lines 80-90): every caller gets a token
\* for what it asked for.
THEOREM TokensMatch == CredentialSpec => []TokenOfResource
<1>1. CredentialInv => TokenOfResource
    BY SMT DEF CredentialInv, TokenInv, TokenOfResource
<1> QED BY <1>1, CredentialInvariance, PTL

\* The reduced time to live (lines 74-75) keeps its promise for every lifetime but
\* the margin itself, where it is 0 and the item never leaves the cache.
THEOREM CacheLives ==
    ASSUME Margin \notin Lifetimes
    PROVE  CredentialSpec => []CachedTokenLives
<1>1. ASSUME CredentialInv PROVE CachedTokenLives
    <2> SUFFICES ASSUME NEW r \in Resources, Live(r)
                 PROVE  now < ExpiresAt(cache[r])
        BY DEF CachedTokenLives
    <2>1. cache[r] \in Tokens /\ cache[r] # NoToken
        BY <1>1, SMT DEF CredentialInv, CredentialTypeOK, Live
    <2>2. /\ cache[r].expiresIn \in Nat
          /\ cache[r].expiresIn # Margin
          /\ cache[r].issued \in Nat
        BY <2>1, TokenFields, SMT
    <2>3. /\ ttl[r] = cache[r].expiresIn - Margin
          /\ storedAt[r] <= cache[r].issued + MaxDelay
        BY <1>1, <2>1 DEF CredentialInv, CacheInv
    <2>4. ttl[r] # 0
        BY <2>2, <2>3, SMT DEF Margin
    <2>5. now <= storedAt[r] + ttl[r]
        BY <2>4 DEF Live
    <2>6. now \in Nat /\ storedAt[r] \in Nat /\ MaxDelay \in Nat /\ MaxDelay < Margin
        BY <1>1, LifetimesAssumption, DelayAssumption, SMT DEF CredentialInv, CredentialTypeOK
    <2> QED BY <2>2, <2>3, <2>5, <2>6, SMT DEF ExpiresAt, Margin
<1> QED BY <1>1, CredentialInvariance, PTL

\* Somebody who waits finds the mutex free, or at a caller that asks.
WaitsForSomebody ==
    \A c \in Callers : stage[c] = "waiting" =>
        Enter(c) \/ \E d \in Callers : mutex = d /\ Asks(d)

\* Whoever has the mutex asks, has its answer, and gives it back.
HolderGoesOn ==
    \A c \in Callers : Asks(c) =>
        \/ stage'[c] = stage[c] /\ mutex' = c
        \/ stage[c] = "asking" /\ stage'[c] = "answered" /\ mutex' = c
        \/ stage'[c] \in {"done", "failed"} /\ mutex' = Nobody

\* The mutex is never lost (line 52: runExclusive() releases it also if the call fails):
\* it belongs to a caller that asks IMDS, and leaves it only free and only when its call
\* is over. So a request that fails holds up nobody who waits.
THEOREM MutexIsGivenBack ==
    CredentialSpec => []WaitsForSomebody /\ [][HolderGoesOn]_credentialVars
<1>1. CredentialInv => WaitsForSomebody
    BY DEF CredentialInv, CredentialTypeOK, MutexInv, WaitsForSomebody, Enter
<1>2. CredentialInv /\ [CredentialNext]_credentialVars => HolderGoesOn
    <2> SUFFICES ASSUME CredentialInv, [CredentialNext]_credentialVars, NEW c \in Callers, Asks(c)
                 PROVE  \/ stage'[c] = stage[c] /\ mutex' = c
                        \/ stage[c] = "asking" /\ stage'[c] = "answered" /\ mutex' = c
                        \/ stage'[c] \in {"done", "failed"} /\ mutex' = Nobody
        BY DEF HolderGoesOn
    <2>1. /\ mutex = c /\ mutex # Nobody /\ stage[c] \in {"asking", "answered"}
          /\ stage \in [Callers -> {"idle", "waiting", "asking", "answered", "done", "failed"}]
          /\ \A d \in Callers : Asks(d) => d = c
        BY NobodyAssumption DEF CredentialInv, CredentialTypeOK, MutexInv, Asks
    <2>2. CASE Tick \/ UNCHANGED credentialVars
        BY <2>1, <2>2 DEF Tick, credentialVars
    <2>3. ASSUME NEW d \in Callers, GetToken(d) \/ Hit(d) \/ Miss(d)
          PROVE  stage'[c] = stage[c] /\ mutex' = c
        BY <2>1, <2>3 DEF GetToken, Hit, Miss, Enter
    <2>4. ASSUME NEW d \in Callers, Answer(d)
          PROVE  stage[c] = "asking" /\ stage'[c] = "answered" /\ mutex' = c
        BY <2>1, <2>4 DEF Answer, Asks
    <2>5. ASSUME NEW d \in Callers, StoreToken(d) \/ Fail(d)
          PROVE  stage'[c] \in {"done", "failed"} /\ mutex' = Nobody
        BY <2>1, <2>5 DEF StoreToken, Fail, Asks
    <2> QED BY <2>2, <2>3, <2>4, <2>5 DEF CredentialNext
<1> QED BY <1>1, <1>2, CredentialInvariance, PTL DEF CredentialSpec
===============================================================================
