------------------------ MODULE DeploymentHealth_proofs ------------------------
(***************************************************************************)
(* Proofs about DeploymentHealth: what a report that counts tells. As long *)
(* as a run is active, and once it came to its end, none of its events is  *)
(* lost, and each scenario that is done has reported; a run that was       *)
(* killed never has the event of the finalizer.                            *)
(***************************************************************************)
EXTENDS DeploymentHealth, TLAPS

\* No event is found that was not tracked, and none is of a later run.
EventsKnown ==
    /\ visible \subseteq logged /\ transit \subseteq logged
    /\ \A e \in logged : e.run <= run

\* The last run, unless it was broken off.
Whole == active \/ Completed(run)

\* Nothing of it is lost,
EventsKept == Whole => \A e \in logged : e.run = run => e \in visible \cup transit

\* and its scenarios have reported.
DoneReported ==
    Whole => \A s \in Scenarios : phase[s] = "done" =>
                 \E ok \in BOOLEAN : Availability(run, s, ok) \in logged

CompletedIsOver ==
    /\ active => run > 0
    /\ Completed(run) => ~active /\ \A s \in Scenarios : phase[s] = "done"

SomeCompleted == \E n \in Runs : Completed(n)

SomeAvailable == \E e \in logged : e.kind = "Availability" /\ e.ok

\* What an answer of a query has seen stays true.
AnswersHold ==
    /\ answers["testResults"] = "pass" => SomeCompleted
    /\ answers["availabilityResults"] = "pass" => SomeAvailable

IInv ==
    /\ TypeOK
    /\ EventsKnown /\ EventsKept /\ DoneReported /\ CompletedIsOver
    /\ AnswersHold /\ PassNeedsCompletedRun

-------------------------------------------------------------------------------
LEMMA Types ==
    ASSUME TypeOK
    PROVE  /\ transit \subseteq Events /\ visible \subseteq Events /\ logged \subseteq Events
           /\ run \in Nat /\ (run > 0 => run \in Runs)
           /\ MaxRuns \in Nat \ {0} /\ Interval \in Nat \ {0} /\ InitialWait \in Nat /\ Timeout \in Nat
BY BoundsAssumption, SMT DEF TypeOK, Runs

\* The events of the health report (health-check-queries.ts).
LEMMA EventFields ==
    ASSUME NEW e \in Events
    PROVE  /\ e.run \in Runs /\ e.run \in Nat /\ e.ok \in BOOLEAN
           /\ e.kind \in {"TestRun", "Finalizer", "Availability"}
<1>1. CASE e \in [kind : {"TestRun"}, run : Runs, of : Scenarios \X Tests, ok : BOOLEAN]
    BY <1>1, BoundsAssumption, SMT DEF Runs
<1>2. CASE e \in {Finalizer(n) : n \in Runs}
    <2>1. PICK n \in Runs : e = Finalizer(n)
        BY <1>2
    <2>2. e.run = n /\ e.ok = TRUE /\ e.kind = "Finalizer"
        BY <2>1 DEF Finalizer
    <2>3. n \in Nat
        BY BoundsAssumption, SMT DEF Runs
    <2> QED BY <2>2, <2>3
<1>3. CASE e \in [kind : {"Availability"}, run : Runs, of : {<<s>> : s \in Scenarios}, ok : BOOLEAN]
    BY <1>3, BoundsAssumption, SMT DEF Runs
<1> QED BY <1>1, <1>2, <1>3 DEF Events

LEMMA TrackedEvents ==
    ASSUME NEW n \in Runs, NEW s \in Scenarios, NEW t \in Tests, NEW ok \in BOOLEAN
    PROVE  /\ TestRun(n, s, t, ok) \in Events /\ TestRun(n, s, t, ok).run = n
           /\ TestRun(n, s, t, ok).kind = "TestRun"
BY SMT DEF Events, TestRun

LEMMA AvailabilityEvents ==
    ASSUME NEW n \in Runs, NEW s \in Scenarios, NEW ok \in BOOLEAN
    PROVE  /\ Availability(n, s, ok) \in Events /\ Availability(n, s, ok).run = n
           /\ Availability(n, s, ok).kind = "Availability"
BY SMT DEF Events, Availability

LEMMA FinalizerEvents ==
    ASSUME NEW n \in Runs
    PROVE  /\ Finalizer(n) \in Events /\ Finalizer(n).run = n
           /\ Finalizer(n).kind = "Finalizer"
<1>1. Finalizer(n) \in Events
    BY DEF Events
<1>2. Finalizer(n).run = n /\ Finalizer(n).kind = "Finalizer"
    BY DEF Finalizer
<1> QED BY <1>1, <1>2

LEMMA FinalizerIsNoOther ==
    ASSUME NEW n, NEW m, NEW s, NEW t, NEW ok
    PROVE  Finalizer(m) # TestRun(n, s, t, ok) /\ Finalizer(m) # Availability(n, s, ok)
<1>1. /\ Finalizer(m).kind = "Finalizer" /\ TestRun(n, s, t, ok).kind = "TestRun"
      /\ Availability(n, s, ok).kind = "Availability"
    BY DEF Finalizer, TestRun, Availability
<1> QED BY <1>1

\* Events that are tracked add to the history.
LEMMA MoreIsKnown ==
    ASSUME logged \subseteq logged'
    PROVE  /\ SomeCompleted => SomeCompleted'
           /\ SomeAvailable => SomeAvailable'
           /\ PassNeedsCompletedRun /\ (checker' = "passed" => checker = "passed")
                  => PassNeedsCompletedRun'
<1>1. SomeCompleted => SomeCompleted'
    BY DEF SomeCompleted, Completed
<1>2. SomeAvailable => SomeAvailable'
    BY DEF SomeAvailable
<1>3. ASSUME PassNeedsCompletedRun, checker' = "passed" => checker = "passed", checker' = "passed"
      PROVE  \E n \in Runs : Completed(n)' /\ \E e \in logged' : e.kind = "Availability" /\ e.ok
    BY <1>3 DEF PassNeedsCompletedRun, Completed
<1> QED BY <1>1, <1>2, <1>3 DEF PassNeedsCompletedRun

\* The last of the runs that have a mark (lines 10-17).
LEMMA LastRun ==
    ASSUME NEW es, NEW marks, NEW n \in Nat,
           \A m \in marks : m.run \in Nat /\ m.run <= n,
           \E m \in marks : m.run = n
    PROVE  OfLastRun(es, marks) = {e \in es : e.run = n}
<1> DEFINE S == {m.run : m \in marks}
<1>1. n \in S /\ \A x \in S : x \in Nat /\ x <= n
    OBVIOUS
<1>2. Max(S) = CHOOSE x \in S : \A y \in S : x >= y
    BY DEF Max
<1> HIDE DEF S
<1>3. \E x \in S : \A y \in S : x >= y
    BY <1>1, SMT
<1>4. Max(S) \in S /\ \A y \in S : Max(S) >= y
    BY <1>2, <1>3
<1>5. Max(S) \in Nat /\ Max(S) <= n /\ Max(S) >= n
    BY <1>1, <1>4
<1>6. Max(S) = n
    BY <1>5, SMT
<1> QED BY <1>6 DEF OfLastRun, S

LEMMA InitInv == Init => IInv
<1> SUFFICES ASSUME Init PROVE IInv
    OBVIOUS
<1>1. TypeOK
    <2>1. run \in 0 .. MaxRuns /\ remaining \in Nat /\ elapsed \in 0 .. Timeout + 1
        BY BoundsAssumption, SMT DEF Init
    <2>2. phase \in [Scenarios -> {"setup", "before", "submit", "after", "done", "thrown"}]
        BY DEF Init
    <2> QED BY <2>1, <2>2 DEF Init, TypeOK, Unasked
<1>2. EventsKnown /\ EventsKept /\ DoneReported /\ CompletedIsOver /\ PassNeedsCompletedRun
    BY DEF Init, EventsKnown, EventsKept, DoneReported, CompletedIsOver, PassNeedsCompletedRun,
           Whole, Completed
<1>3. AnswersHold
    BY DEF Init, AnswersHold, Unasked, Queries
<1> QED BY <1>1, <1>2, <1>3 DEF IInv

-------------------------------------------------------------------------------
\* Steps of the test suite.

\* The job begins another run (cron-job.yaml): nothing is known of it.
LEMMA StartRunStep == ASSUME IInv, StartRun PROVE IInv'
<1> USE DEF IInv
<1>1. /\ ~active /\ run < MaxRuns /\ run' = run + 1 /\ active' = TRUE
      /\ phase' = [s \in Scenarios |-> "setup"]
      /\ UNCHANGED <<running, transit, visible, logged, checker, remaining, elapsed, answers>>
    BY DEF StartRun, events, evaluation
<1>2. run \in Nat /\ run' \in 0 .. MaxRuns /\ run' > 0
    BY <1>1, BoundsAssumption, SMT DEF TypeOK
<1>3. TypeOK'
    BY <1>1, <1>2 DEF TypeOK
<1>4. \A e \in logged : e.run \in Nat /\ e.run <= run
    BY Types, EventFields DEF EventsKnown
<1>5. \A e \in logged : e.run <= run' /\ e.run # run'
    BY <1>1, <1>2, <1>4, SMT
<1>6. ~Completed(run)'
    <2>1. Finalizer(run').run = run'
        BY DEF Finalizer
    <2>2. Finalizer(run') \notin logged'
        BY <1>1, <1>5, <2>1
    <2> QED BY <2>2 DEF Completed
<1>7. EventsKnown' /\ EventsKept'
    BY <1>1, <1>5 DEF EventsKnown, EventsKept
<1>8. DoneReported' /\ CompletedIsOver'
    BY <1>1, <1>2, <1>6 DEF DoneReported, CompletedIsOver
<1>9. AnswersHold' /\ PassNeedsCompletedRun'
    BY <1>1 DEF AnswersHold, SomeCompleted, SomeAvailable, PassNeedsCompletedRun, Completed
<1> QED BY <1>3, <1>7, <1>8, <1>9

\* A scenario goes on or throws, and nothing is tracked (test-scenario-driver.ts, lines
\* 40-67).
LEMMA QuietStep ==
    ASSUME IInv, NEW s \in Scenarios,
           SetUp(s) \/ EndBeforeScan(s) \/ SubmitScans(s) \/ Throw(s)
    PROVE  IInv'
<1> USE DEF IInv
<1>1. /\ active
      /\ UNCHANGED <<run, active, transit, visible, logged, checker, remaining, elapsed, answers>>
      /\ running' \in [Scenarios -> SUBSET Tests]
      /\ \E p \in {"before", "submit", "after", "thrown"} : phase' = [phase EXCEPT ![s] = p]
    BY DEF SetUp, EndBeforeScan, SubmitScans, Throw, Enter, events, evaluation, TypeOK, Tests
<1>2. /\ phase' \in [Scenarios -> {"setup", "before", "submit", "after", "done", "thrown"}]
      /\ \A q \in Scenarios : phase'[q] = "done" => phase[q] = "done"
    BY <1>1 DEF TypeOK
<1>3. TypeOK'
    BY <1>1, <1>2 DEF TypeOK
<1>4. EventsKnown' /\ EventsKept' /\ DoneReported'
    BY <1>1, <1>2 DEF EventsKnown, EventsKept, DoneReported, Whole, Completed
<1>5. CompletedIsOver'
    BY <1>1 DEF CompletedIsOver, Completed
<1>6. AnswersHold' /\ PassNeedsCompletedRun'
    BY <1>1 DEF AnswersHold, SomeCompleted, SomeAvailable, PassNeedsCompletedRun, Completed
<1> QED BY <1>3, <1>4, <1>5, <1>6

\* What tracking an event of the active run leaves true (trackEvent, trackAvailability).
LEMMA Tracking ==
    ASSUME IInv, active, NEW e \in Events, e.run = run, Track(e),
           UNCHANGED <<run, checker, answers>>
    PROVE  /\ EventsKnown' /\ AnswersHold' /\ PassNeedsCompletedRun'
           /\ \A f \in logged' : f.run = run => f \in visible' \cup transit'
           /\ transit' \subseteq Events /\ visible' \subseteq Events /\ logged' \subseteq Events
<1> USE DEF IInv
<1>1. transit' = transit \cup {e} /\ logged' = logged \cup {e} /\ visible' = visible
    BY DEF Track
<1>2. e.run <= run
    BY Types, SMT
<1>3. EventsKnown'
    BY <1>1, <1>2 DEF EventsKnown
<1>4. logged \subseteq logged'
    BY <1>1
<1>5. AnswersHold' /\ PassNeedsCompletedRun'
    BY <1>4, MoreIsKnown DEF AnswersHold
<1>6. \A f \in logged' : f.run = run => f \in visible' \cup transit'
    BY <1>1 DEF EventsKept, Whole
<1>7. transit' \subseteq Events /\ visible' \subseteq Events /\ logged' \subseteq Events
    BY <1>1, Types
<1> QED BY <1>3, <1>5, <1>6, <1>7

\* A scenario is over, and its availability is tracked (lines 80-113).
LEMMA AvailabilityStep ==
    ASSUME IInv, NEW s \in Scenarios, SetUpFails(s) \/ SubmitScansFails(s) \/ EndScenario(s)
    PROVE  IInv'
<1> USE DEF IInv
<1>1. PICK ok \in BOOLEAN : Track(Availability(run, s, ok))
    BY DEF SetUpFails, SubmitScansFails, EndScenario
<1>2. /\ active /\ phase' = [phase EXCEPT ![s] = "done"]
      /\ UNCHANGED <<run, active, running, checker, remaining, elapsed, answers>>
    BY DEF SetUpFails, SubmitScansFails, EndScenario, Enter, evaluation
<1>3. run \in Runs
    BY <1>2, Types DEF CompletedIsOver
<1> DEFINE e == Availability(run, s, ok)
<1>4. e \in Events /\ e.run = run
    BY <1>3, AvailabilityEvents
<1>5. /\ EventsKnown' /\ AnswersHold' /\ PassNeedsCompletedRun'
      /\ \A f \in logged' : f.run = run => f \in visible' \cup transit'
      /\ transit' \subseteq Events /\ visible' \subseteq Events /\ logged' \subseteq Events
    BY <1>1, <1>2, <1>4, Tracking
<1>6. logged' = logged \cup {e}
    BY <1>1 DEF Track
<1>7. phase'[s] = "done" /\ \A q \in Scenarios : q # s => phase'[q] = phase[q]
    BY <1>2 DEF TypeOK
<1>8. TypeOK'
    BY <1>2, <1>5 DEF TypeOK
<1>9. EventsKept'
    BY <1>2, <1>5 DEF EventsKept
<1>10. DoneReported'
    BY <1>2, <1>6, <1>7 DEF DoneReported, Whole
<1>11. CompletedIsOver'
    <2>1. ~Completed(run)
        BY <1>2 DEF CompletedIsOver
    <2>2. ~Completed(run)'
        BY <1>2, <1>6, <2>1, FinalizerIsNoOther DEF Completed
    <2> QED BY <1>2, <2>2 DEF CompletedIsOver
<1> QED BY <1>5, <1>8, <1>9, <1>10, <1>11

\* A test ends, and its result is tracked (test-runner.ts, lines 34-103).
LEMMA EndTestStep ==
    ASSUME IInv, NEW s \in Scenarios, NEW t \in Tests, NEW ok \in BOOLEAN, EndTest(s, t, ok)
    PROVE  IInv'
<1> USE DEF IInv
<1> DEFINE e == TestRun(run, s, t, ok)
<1>1. /\ active /\ Track(e)
      /\ running' = [running EXCEPT ![s] = @ \ {t}]
      /\ UNCHANGED <<run, active, phase, checker, remaining, elapsed, answers>>
    BY DEF EndTest, evaluation
<1>2. run \in Runs
    BY <1>1, Types DEF CompletedIsOver
<1>3. e \in Events /\ e.run = run
    BY <1>2, TrackedEvents
<1>4. /\ EventsKnown' /\ AnswersHold' /\ PassNeedsCompletedRun'
      /\ \A f \in logged' : f.run = run => f \in visible' \cup transit'
      /\ transit' \subseteq Events /\ visible' \subseteq Events /\ logged' \subseteq Events
    BY <1>1, <1>3, Tracking
<1>5. logged' = logged \cup {e}
    BY <1>1 DEF Track
<1>6. TypeOK'
    BY <1>1, <1>4 DEF TypeOK
<1>7. EventsKept'
    BY <1>1, <1>4 DEF EventsKept
<1>8. DoneReported'
    BY <1>1, <1>5 DEF DoneReported, Whole
<1>9. CompletedIsOver'
    <2>1. ~Completed(run)
        BY <1>1 DEF CompletedIsOver
    <2>2. ~Completed(run)'
        BY <1>1, <1>5, <2>1, FinalizerIsNoOther DEF Completed
    <2> QED BY <1>1, <2>2 DEF CompletedIsOver
<1> QED BY <1>4, <1>6, <1>7, <1>8, <1>9

\* The finalizer is tracked when all scenarios are done (e2e-test-runner.ts, lines 24-48).
LEMMA FinalizeStep == ASSUME IInv, Finalize PROVE IInv'
<1> USE DEF IInv
<1> DEFINE e == Finalizer(run)
<1>1. /\ active /\ active' = FALSE /\ Track(e)
      /\ \A s \in Scenarios : phase[s] = "done"
      /\ UNCHANGED <<run, phase, running, checker, remaining, elapsed, answers>>
    BY DEF Finalize, evaluation
<1>2. run \in Runs
    BY <1>1, Types DEF CompletedIsOver
<1>3. e \in Events /\ e.run = run
    BY <1>2, FinalizerEvents
<1>4. /\ EventsKnown' /\ AnswersHold' /\ PassNeedsCompletedRun'
      /\ \A f \in logged' : f.run = run => f \in visible' \cup transit'
      /\ transit' \subseteq Events /\ visible' \subseteq Events /\ logged' \subseteq Events
    BY <1>1, <1>3, Tracking
<1>5. logged' = logged \cup {e}
    BY <1>1 DEF Track
<1>6. TypeOK'
    BY <1>1, <1>4 DEF TypeOK
<1>7. EventsKept'
    BY <1>1, <1>4 DEF EventsKept
<1>8. DoneReported'
    BY <1>1, <1>5 DEF DoneReported, Whole
<1>9. CompletedIsOver'
    BY <1>1 DEF CompletedIsOver
<1> QED BY <1>4, <1>6, <1>7, <1>8, <1>9

\* A run that is broken off is never completed.
LEMMA BrokenOffStep == ASSUME IInv, EndUnfinalized \/ JobKilled PROVE IInv'
<1> USE DEF IInv
<1>1. /\ active /\ active' = FALSE /\ transit' \subseteq transit
      /\ UNCHANGED <<run, phase, running, visible, logged, checker, remaining, elapsed, answers>>
    BY DEF EndUnfinalized, JobKilled, events, evaluation
<1>2. ~Completed(run) /\ ~Completed(run)'
    BY <1>1 DEF CompletedIsOver, Completed
<1>3. ~Whole'
    BY <1>1, <1>2 DEF Whole
<1>4. TypeOK'
    BY <1>1 DEF TypeOK
<1>5. EventsKnown' /\ EventsKept' /\ DoneReported' /\ CompletedIsOver'
    BY <1>1, <1>2, <1>3 DEF EventsKnown, EventsKept, DoneReported, CompletedIsOver
<1>6. AnswersHold' /\ PassNeedsCompletedRun'
    BY <1>1 DEF AnswersHold, SomeCompleted, SomeAvailable, PassNeedsCompletedRun, Completed
<1> QED BY <1>4, <1>5, <1>6

LEMMA IngestStep == ASSUME IInv, NEW e \in transit, Ingest(e) PROVE IInv'
<1> USE DEF IInv
<1>1. /\ transit' = transit \ {e} /\ visible' = visible \cup {e}
      /\ UNCHANGED <<run, active, phase, running, logged, checker, remaining, elapsed, answers>>
    BY DEF Ingest, suite, evaluation
<1>2. TypeOK'
    BY <1>1 DEF TypeOK
<1>3. EventsKnown' /\ EventsKept' /\ DoneReported' /\ CompletedIsOver'
    BY <1>1 DEF EventsKnown, EventsKept, DoneReported, CompletedIsOver, Whole, Completed
<1>4. AnswersHold' /\ PassNeedsCompletedRun'
    BY <1>1 DEF AnswersHold, SomeCompleted, SomeAvailable, PassNeedsCompletedRun, Completed
<1> QED BY <1>2, <1>3, <1>4

-------------------------------------------------------------------------------
\* Steps of the checker.

\* A query is answered from the events found at that moment (executeAppInsightsQuery).
LEMMA AnswerQueryStep == ASSUME IInv, NEW q \in Queries, AnswerQuery(q) PROVE IInv'
<1> USE DEF IInv
<1>1. /\ answers' = [answers EXCEPT ![q] = Verdict(Rows(q))]
      /\ UNCHANGED <<run, active, phase, running, transit, visible, logged, checker, remaining,
                     elapsed>>
    BY DEF AnswerQuery, suite, events
<1>2. /\ answers'[q] = Verdict(Rows(q))
      /\ \A p \in Queries : p # q => answers'[p] = answers[p]
    BY <1>1 DEF TypeOK
<1>3. Verdict(Rows(q)) \in {"empty", "pass", "fail"}
    BY DEF Verdict
<1>4. TypeOK'
    BY <1>1, <1>3 DEF TypeOK
<1>5. ASSUME Verdict(TestRows) = "pass" PROVE SomeCompleted
    <2>1. TestRows # {}
        BY <1>5 DEF Verdict
    <2>2. PICK e \in visible : e.kind = "Finalizer"
        BY <2>1 DEF TestRows, OfLastRun, OfKind
    <2>3. e \in Events /\ e \in logged
        BY Types DEF EventsKnown
    <2>4. e \in {Finalizer(n) : n \in Runs}
        BY <2>2, <2>3, SMT DEF Events
    <2> QED BY <2>3, <2>4 DEF SomeCompleted, Completed
<1>6. ASSUME Verdict(AvailabilityRows) = "pass" PROVE SomeAvailable
    <2>1. AvailabilityRows # {} /\ \A e \in AvailabilityRows : e.ok
        BY <1>6 DEF Verdict
    <2>2. PICK e \in AvailabilityRows : e.ok
        BY <2>1
    <2>3. e \in visible /\ e.kind = "Availability"
        BY DEF AvailabilityRows, OfLastRun, OfKind
    <2> QED BY <2>2, <2>3 DEF EventsKnown, SomeAvailable
<1>7. AnswersHold'
    <2>1. ASSUME answers'["testResults"] = "pass" PROVE SomeCompleted
        BY <1>2, <1>5, <2>1 DEF Rows, Queries, AnswersHold
    <2>2. ASSUME answers'["availabilityResults"] = "pass" PROVE SomeAvailable
        BY <1>2, <1>6, <2>2 DEF Rows, Queries, AnswersHold
    <2>3. (SomeCompleted <=> SomeCompleted') /\ (SomeAvailable <=> SomeAvailable')
        BY <1>1 DEF SomeCompleted, SomeAvailable, Completed
    <2> QED BY <2>1, <2>2, <2>3 DEF AnswersHold
<1>8. EventsKnown' /\ EventsKept' /\ DoneReported' /\ CompletedIsOver' /\ PassNeedsCompletedRun'
    BY <1>1 DEF EventsKnown, EventsKept, DoneReported, CompletedIsOver, PassNeedsCompletedRun,
                Whole, Completed
<1> QED BY <1>4, <1>7, <1>8

\* The clock, the next request and the decision on a report
\* (deployment-health-checker.ts, lines 18-62).
LEMMA CheckerGoesOn ==
    ASSUME IInv, Tick \/ Ask \/ GetReport \/ ReportFails
    PROVE  IInv'
<1> USE DEF IInv
<1>1. UNCHANGED <<run, active, phase, running, transit, visible, logged>>
    BY DEF Tick, Ask, GetReport, ReportFails, suite, events
<1>2. /\ answers' \in {answers, Unasked}
      /\ checker' \in {"waiting", "asking", "interval", "passed", "timedOut"}
      /\ remaining' \in Nat /\ elapsed' \in 0 .. Timeout + 1
    <2>1. CASE Tick
        <3>1. /\ remaining' \in Nat /\ elapsed' \in 0 .. Timeout + 1
            BY <2>1, Types, SMT DEF Tick, TypeOK
        <3> QED BY <2>1, <3>1 DEF Tick, TypeOK
    <2>2. CASE Ask
        BY <2>2 DEF Ask, TypeOK
    <2>3. CASE GetReport \/ ReportFails
        BY <2>3, Types DEF GetReport, ReportFails, Decide, TypeOK
    <2> QED BY <2>1, <2>2, <2>3
<1>3. TypeOK'
    BY <1>1, <1>2 DEF TypeOK, Unasked
<1>4. EventsKnown' /\ EventsKept' /\ DoneReported' /\ CompletedIsOver'
    BY <1>1 DEF EventsKnown, EventsKept, DoneReported, CompletedIsOver, Whole, Completed
<1>5. (SomeCompleted <=> SomeCompleted') /\ (SomeAvailable <=> SomeAvailable')
    BY <1>1 DEF SomeCompleted, SomeAvailable, Completed
<1>6. AnswersHold'
    <2>1. CASE answers' = answers
        BY <1>5, <2>1 DEF AnswersHold
    <2>2. CASE answers' = Unasked
        BY <2>2 DEF AnswersHold, Unasked, Queries
    <2> QED BY <1>2, <2>1, <2>2
<1>7. PassNeedsCompletedRun'
    <2> SUFFICES ASSUME checker' = "passed" PROVE SomeCompleted' /\ SomeAvailable'
        BY DEF PassNeedsCompletedRun, SomeCompleted, SomeAvailable
    <2>1. CASE Tick \/ Ask
        <3>1. checker = "passed"
            BY <2>1 DEF Tick, Ask
        <3> QED BY <1>5, <3>1 DEF PassNeedsCompletedRun, SomeCompleted, SomeAvailable
    <2>2. CASE GetReport
        <3>1. Status(answers) = "pass"
            BY <2>2 DEF GetReport, Decide
        <3>2. \A q \in Queries : answers[q] = "pass"
            BY <3>1 DEF Status
        <3> QED BY <1>5, <3>2 DEF AnswersHold, Queries
    <2>3. CASE ReportFails
        BY <2>3 DEF ReportFails, Decide
    <2> QED BY <2>1, <2>2, <2>3
<1> QED BY <1>3, <1>4, <1>6, <1>7

\* Every step keeps the invariant.
LEMMA NextInv == IInv /\ [Next]_vars => IInv'
<1> SUFFICES ASSUME IInv, [Next]_vars PROVE IInv'
    OBVIOUS
<1>1. CASE StartRun
    BY <1>1, StartRunStep
<1>2. ASSUME NEW s \in Scenarios, Scenario(s) PROVE IInv'
    <2>1. CASE SetUp(s) \/ EndBeforeScan(s) \/ SubmitScans(s) \/ Throw(s)
        BY <2>1, QuietStep
    <2>2. CASE SetUpFails(s) \/ SubmitScansFails(s) \/ EndScenario(s)
        BY <2>2, AvailabilityStep
    <2>3. CASE \E t \in Tests, ok \in BOOLEAN : EndTest(s, t, ok)
        BY <2>3, EndTestStep
    <2> QED BY <1>2, <2>1, <2>2, <2>3 DEF Scenario
<1>3. CASE Finalize
    BY <1>3, FinalizeStep
<1>4. CASE EndUnfinalized \/ JobKilled
    BY <1>4, BrokenOffStep
<1>5. CASE \E e \in transit : Ingest(e)
    BY <1>5, IngestStep
<1>6. CASE Tick \/ CheckerStep
    BY <1>6, CheckerGoesOn, AnswerQueryStep DEF CheckerStep
<1>7. CASE UNCHANGED vars
    <2>1. UNCHANGED <<run, active, phase, running, transit, visible, logged, checker, remaining,
                      elapsed, answers>>
        BY <1>7 DEF vars
    <2>2. TypeOK' /\ EventsKnown' /\ EventsKept' /\ DoneReported' /\ CompletedIsOver'
        BY <2>1 DEF IInv, TypeOK, EventsKnown, EventsKept, DoneReported, CompletedIsOver, Whole,
                    Completed
    <2>3. AnswersHold' /\ PassNeedsCompletedRun'
        BY <2>1 DEF IInv, AnswersHold, SomeCompleted, SomeAvailable, PassNeedsCompletedRun, Completed
    <2> QED BY <2>2, <2>3 DEF IInv
<1> QED BY <1>1, <1>2, <1>3, <1>4, <1>5, <1>6, <1>7 DEF Next

LEMMA Invariance == Spec => []IInv
<1> QED BY InitInv, NextInv, PTL DEF Spec

-------------------------------------------------------------------------------
\* Every reachable state is well typed: every tracked event is one of the health report's.
THEOREM TypeCorrect == Spec => []TypeOK
<1>1. IInv => TypeOK
    BY DEF IInv
<1> QED BY <1>1, Invariance, PTL

\* A verdict tells whether all rows are ok.
LEMMA VerdictOfRows ==
    ASSUME NEW rows, rows # {}
    PROVE  Verdict(rows) = IF \A e \in rows : e.ok THEN "pass" ELSE "fail"
BY DEF Verdict

\* A deployment passes only after a completed run, and the report on a run that came to
\* its end and is found tells what happened in it, for any number of runs, scenarios and
\* tests (health-check-queries.ts; deployment-health-checker.ts, lines 48-62).
THEOREM ReportsTellWhatHappened ==
    ASSUME Scenarios # {}
    PROVE  Spec => []ReportsCount
<1>1. IInv => ReportsCount
    <2> SUFFICES ASSUME IInv, ~active, run > 0, Completed(run), transit = {}
                 PROVE  Status([q \in Queries |-> Verdict(Rows(q))])
                            = IF AllPassed(run) THEN "pass" ELSE "fail"
        BY DEF ReportsCount, SettledReport, IInv
    <2> USE DEF IInv
    <2>1. run \in Runs /\ run \in Nat
        BY Types
    <2>2. \A e \in visible : e \in Events /\ e.run \in Nat /\ e.run <= run
        BY Types, EventFields DEF EventsKnown
    <2>3. \A e \in logged : e.run = run => e \in visible
        BY DEF EventsKept, Whole
    <2>4. TestRows = {e \in OfKind({"TestRun", "Finalizer"}) : e.run = run} /\ TestRows # {}
        <3>1. /\ Finalizer(run) \in visible /\ Finalizer(run).run = run
              /\ Finalizer(run).kind = "Finalizer"
            BY <2>1, <2>3, FinalizerEvents DEF Completed
        <3>2. Finalizer(run) \in OfKind({"Finalizer"})
              /\ Finalizer(run) \in OfKind({"TestRun", "Finalizer"})
            BY <3>1 DEF OfKind
        <3>3. \A m \in OfKind({"Finalizer"}) : m.run \in Nat /\ m.run <= run
            BY <2>2 DEF OfKind
        <3>4. TestRows = {e \in OfKind({"TestRun", "Finalizer"}) : e.run = run}
            BY <2>1, <3>1, <3>2, <3>3, LastRun DEF TestRows
        <3> QED BY <3>1, <3>2, <3>4
    <2>5. AvailabilityRows = {e \in OfKind({"Availability"}) : e.run = run} /\ AvailabilityRows # {}
        <3>1. PICK s \in Scenarios : phase[s] = "done"
            BY DEF CompletedIsOver
        <3>2. PICK ok \in BOOLEAN : Availability(run, s, ok) \in logged
            BY <3>1 DEF DoneReported, Whole
        <3> DEFINE a == Availability(run, s, ok)
        <3>3. a \in visible /\ a.run = run /\ a.kind = "Availability"
            BY <2>1, <2>3, <3>2, AvailabilityEvents
        <3> HIDE DEF a
        <3>4. a \in OfKind({"Availability"})
            BY <3>3 DEF OfKind
        <3>5. \A m \in OfKind({"Availability"}) : m.run \in Nat /\ m.run <= run
            BY <2>2 DEF OfKind
        <3>6. AvailabilityRows = {e \in OfKind({"Availability"}) : e.run = run}
            BY <2>1, <3>3, <3>4, <3>5, LastRun DEF AvailabilityRows
        <3> QED BY <3>3, <3>4, <3>6
    <2>6. {e \in logged : e.run = run} = TestRows \cup AvailabilityRows
        <3>1. \A e \in logged : e.kind \in {"TestRun", "Finalizer", "Availability"}
            BY Types, EventFields
        <3>2. \A e \in visible : e \in logged
            BY DEF EventsKnown
        <3> QED BY <2>3, <2>4, <2>5, <3>1, <3>2 DEF OfKind
    <2>7. AllPassed(run) <=> (\A e \in TestRows : e.ok) /\ (\A e \in AvailabilityRows : e.ok)
        BY <2>6 DEF AllPassed
    <2> DEFINE as == [q \in Queries |-> Verdict(Rows(q))]
    <2>8. /\ as["testResults"] = IF \A e \in TestRows : e.ok THEN "pass" ELSE "fail"
          /\ as["availabilityResults"] =
                 IF \A e \in AvailabilityRows : e.ok THEN "pass" ELSE "fail"
        BY <2>4, <2>5, VerdictOfRows DEF Rows, Queries
    <2> HIDE DEF as
    <2>9. Status(as) = IF AllPassed(run) THEN "pass" ELSE "fail"
        BY <2>7, <2>8 DEF Status, Queries
    <2> QED BY <2>9 DEF as
<1> QED BY <1>1, Invariance, PTL
===============================================================================
