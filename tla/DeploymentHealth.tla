-------------------------- MODULE DeploymentHealth --------------------------
(***************************************************************************)
(* How a deployment is judged: a cron job runs the end-to-end test suite   *)
(* one run at a time, the runs leave events in Application Insights, the   *)
(* web API makes a health report of the events it finds, and the           *)
(* deployment health checker asks for that report until it says "pass" or  *)
(* time is up. An event may be found long after it was tracked, and events *)
(* may be found in another order than they were tracked in.                *)
(*                                                                         *)
(* Time is counted in ticks. The clock of the checker starts after its     *)
(* first wait and stops one tick past the timeout, where the code can no   *)
(* longer tell the times apart. The scans of a scenario are submitted in   *)
(* one step.                                                               *)
(***************************************************************************)
EXTENDS Naturals, FiniteSets, FiniteSetsExt

CONSTANTS
    Scenarios,    \* allTestScenarioFactories
    BeforeTests,  \* tests of the phase beforeScan
    AfterTests,   \* tests of the phase afterScanSubmission
    MaxRuns,      \* bound: number of runs of the job
    InitialWait,  \* waitTimeBeforeEvaluationInMinutes
    Interval,     \* evaluationIntervalInMinutes
    Timeout       \* testTimeoutInMinutes

ASSUME BoundsAssumption ==
    /\ {MaxRuns, Interval} \subseteq Nat \ {0}
    /\ {InitialWait, Timeout} \subseteq Nat

Tests == BeforeTests \cup AfterTests

Runs == 1 .. MaxRuns

VARIABLES
    run,       \* the number of the last run
    active,    \* whether its process is alive
    phase,     \* phase[s]: where scenario s of the run is
    running,   \* running[s]: tests of the phase that have not ended
    transit,   \* events that no query finds yet
    visible,   \* events that queries find
    logged,    \* history: all events that were tracked
    checker,   \* what the health checker does
    remaining, \* ticks until its wait is over
    elapsed,   \* ticks since its startTime
    answers    \* answers[q]: of the report that is made, the answer to query q

vars == <<run, active, phase, running, transit, visible, logged, checker, remaining, elapsed,
          answers>>

suite == <<run, active, phase, running>>

events == <<transit, visible, logged>>

evaluation == <<checker, remaining, elapsed, answers>>

\* Mutant: the id of the run is not waited for.
TestRunWithoutId(n, s, t, ok) == [kind |-> "TestRun", run |-> 0, of |-> <<s, t>>, ok |-> ok]

\* The events that the health report is made of.
TestRun(n, s, t, ok) == [kind |-> "TestRun", run |-> n, of |-> <<s, t>>, ok |-> ok]

Finalizer(n) == [kind |-> "Finalizer", run |-> n, of |-> <<>>, ok |-> TRUE]

Availability(n, s, ok) == [kind |-> "Availability", run |-> n, of |-> <<s>>, ok |-> ok]

Events ==
    [kind : {"TestRun"}, run : Runs, of : Scenarios \X Tests, ok : BOOLEAN]
        \cup {Finalizer(n) : n \in Runs}
        \cup [kind : {"Availability"}, run : Runs, of : {<<s>> : s \in Scenarios}, ok : BOOLEAN]

Queries == {"testResults", "availabilityResults"}

Unasked == [q \in Queries |-> "none"]

Init ==
    /\ run = 0
    /\ active = FALSE
    /\ phase = [s \in Scenarios |-> "done"]
    /\ running = [s \in Scenarios |-> {}]
    /\ transit = {}
    /\ visible = {}
    /\ logged = {}
    /\ checker = "waiting"
    /\ remaining = InitialWait
    /\ elapsed = 0
    /\ answers = Unasked

-------------------------------------------------------------------------------
(***************************************************************************)
(* The runs of the test suite                                              *)
(***************************************************************************)
Track(e) ==
    /\ transit' = transit \cup {e}
    /\ logged' = logged \cup {e}
    /\ UNCHANGED visible

Enter(s, p) == phase' = [phase EXCEPT ![s] = p]

\* The job's schedule comes round; a run that goes on forbids another one.
StartRun ==
    /\ ~active
    /\ run < MaxRuns
    /\ run' = run + 1
    /\ active' = TRUE
    /\ phase' = [s \in Scenarios |-> "setup"]
    /\ UNCHANGED <<running, events, evaluation>>

SetUp(s) ==
    /\ active
    /\ phase[s] = "setup"
    /\ Enter(s, "before")
    /\ running' = [running EXCEPT ![s] = BeforeTests]
    /\ UNCHANGED <<run, active, events, evaluation>>

SetUpFails(s) ==
    /\ active
    /\ phase[s] = "setup"
    /\ Enter(s, "done")
    /\ Track(Availability(run, s, FALSE))
    /\ UNCHANGED <<run, active, running, evaluation>>

\* runTest(): the tests of a phase run at the same time.
EndTest(s, t, ok) ==
    /\ active
    /\ t \in running[s]
    /\ running' = [running EXCEPT ![s] = @ \ {t}]
    /\ Track(TestRun(run, s, t, ok))
    /\ UNCHANGED <<run, active, phase, evaluation>>

EndBeforeScan(s) ==
    /\ active
    /\ phase[s] = "before" /\ running[s] = {}
    /\ Enter(s, "submit")
    /\ UNCHANGED <<run, active, running, events, evaluation>>

SubmitScans(s) ==
    /\ active
    /\ phase[s] = "submit"
    /\ Enter(s, "after")
    /\ running' = [running EXCEPT ![s] = AfterTests]
    /\ UNCHANGED <<run, active, events, evaluation>>

\* Mutant: the scenario ends, and nobody hears of it.
SubmitScansFailsSilently(s) ==
    /\ active
    /\ phase[s] = "submit"
    /\ Enter(s, "done")
    /\ UNCHANGED <<run, active, running, events, evaluation>>

\* The answer to a submission is an error.
SubmitScansFails(s) ==
    /\ active
    /\ phase[s] = "submit"
    /\ Enter(s, "done")
    /\ Track(Availability(run, s, FALSE))
    /\ UNCHANGED <<run, active, running, evaluation>>

\* logTestSuccess(), whatever the results of the tests are.
EndScenario(s) ==
    /\ active
    /\ phase[s] = "after" /\ running[s] = {}
    /\ Enter(s, "done")
    /\ Track(Availability(run, s, TRUE))
    /\ UNCHANGED <<run, active, running, evaluation>>

PhaseTests(s) ==
    CASE phase[s] = "before" -> BeforeTests
      [] phase[s] = "after" -> AfterTests
      [] phase[s] = "submit" -> {}

\* The submission, or the creation of the test containers, throws: nothing is
\* tracked, and the other scenarios go on.
Throw(s) ==
    /\ active
    /\ phase[s] \in {"before", "submit", "after"}
    /\ running[s] = PhaseTests(s)
    /\ Enter(s, "thrown")
    /\ running' = [running EXCEPT ![s] = {}]
    /\ UNCHANGED <<run, active, events, evaluation>>

\* finalizeTestRun(): only after all scenarios.
Finalize ==
    /\ active
    /\ \A s \in Scenarios : phase[s] = "done"
    /\ Track(Finalizer(run))
    /\ active' = FALSE
    /\ UNCHANGED <<run, phase, running, evaluation>>

\* E2ETestRunner.run() threw: the process ends with the last scenario.
EndUnfinalized ==
    /\ active
    /\ \A s \in Scenarios : phase[s] \in {"done", "thrown"}
    /\ \E s \in Scenarios : phase[s] = "thrown"
    /\ active' = FALSE
    /\ UNCHANGED <<run, phase, running, events, evaluation>>

\* The deadline of the job passes: events that were not sent are lost.
JobKilled ==
    /\ active
    /\ active' = FALSE
    /\ \E lost \in SUBSET {e \in transit : e.run = run} : transit' = transit \ lost
    /\ UNCHANGED <<run, phase, running, visible, logged, evaluation>>

\* Application Insights finds an event from now on.
Ingest(e) ==
    /\ transit' = transit \ {e}
    /\ visible' = visible \cup {e}
    /\ UNCHANGED <<suite, logged, evaluation>>

-------------------------------------------------------------------------------
(***************************************************************************)
(* The health report                                                       *)
(***************************************************************************)
\* Events of the last run that has one of these events.
OfLastRun(es, marks) ==
    IF marks = {} THEN {} ELSE {e \in es : e.run = Max({m.run : m \in marks})}

OfKind(kinds) == {e \in visible : e.kind \in kinds}

\* Mutant: the last run is the one with the latest test result, ended or not.
TestRowsOfAnyRun == OfLastRun(OfKind({"TestRun", "Finalizer"}), OfKind({"TestRun", "Finalizer"}))

\* createTestResultsQueryForRelease(): the finalizer is a test as well.
TestRows == OfLastRun(OfKind({"TestRun", "Finalizer"}), OfKind({"Finalizer"}))

\* createAvailabilityResultsQueryForRelease()
AvailabilityRows == OfLastRun(OfKind({"Availability"}), OfKind({"Availability"}))

Rows(q) == IF q = "testResults" THEN TestRows ELSE AvailabilityRows

Verdict(rows) ==
    IF rows = {} THEN "empty" ELSE IF \A e \in rows : e.ok THEN "pass" ELSE "fail"

\* createHealthReport()
Status(as) ==
    IF \E q \in Queries : as[q] = "empty" THEN "warn"
    ELSE IF \A q \in Queries : as[q] = "pass" THEN "pass" ELSE "fail"

-------------------------------------------------------------------------------
(***************************************************************************)
(* The deployment health checker                                           *)
(***************************************************************************)
\* Mutant: the time is taken anew for every evaluation.
IsTestTimeoutOfEvaluation == FALSE

IsTestTimeout == elapsed > Timeout

Tick ==
    /\ checker \in {"waiting", "asking", "interval"}
    /\ checker # "asking" => remaining > 0
    /\ remaining' = IF remaining = 0 THEN 0 ELSE remaining - 1
    /\ elapsed' = IF checker = "waiting" \/ elapsed > Timeout THEN elapsed ELSE elapsed + 1
    /\ UNCHANGED <<suite, events, checker, answers>>

\* getHealthReport(): the request arrives, and both queries are sent.
Ask ==
    /\ checker \in {"waiting", "interval"}
    /\ remaining = 0
    /\ checker' = "asking"
    /\ answers' = Unasked
    /\ UNCHANGED <<suite, events, remaining, elapsed>>

\* The queries are evaluated one after the other, in any order.
AnswerQuery(q) ==
    /\ checker = "asking"
    /\ answers[q] = "none"
    /\ answers' = [answers EXCEPT ![q] = Verdict(Rows(q))]
    /\ UNCHANGED <<suite, events, checker, remaining, elapsed>>

\* The loop goes on until "pass"; the time is looked at only after a report.
Decide(status) ==
    IF status = "pass" THEN checker' = "passed" /\ UNCHANGED remaining
    ELSE IF IsTestTimeout THEN checker' = "timedOut" /\ UNCHANGED remaining
    ELSE checker' = "interval" /\ remaining' = Interval

GetReport ==
    /\ checker = "asking"
    /\ \A q \in Queries : answers[q] # "none"
    /\ Decide(Status(answers))
    /\ answers' = Unasked
    /\ UNCHANGED <<suite, events, elapsed>>

\* A query or the request itself failed: the last known status stays, which was
\* not "pass".
ReportFails ==
    /\ checker = "asking"
    /\ Decide("unknown")
    /\ answers' = Unasked
    /\ UNCHANGED <<suite, events, elapsed>>

CheckerStep == Ask \/ (\E q \in Queries : AnswerQuery(q)) \/ GetReport \/ ReportFails

Scenario(s) ==
    \/ SetUp(s)
    \/ SetUpFails(s)
    \/ \E t \in Tests, ok \in BOOLEAN : EndTest(s, t, ok)
    \/ EndBeforeScan(s)
    \/ SubmitScans(s)
    \/ SubmitScansFails(s)
    \/ EndScenario(s)
    \/ Throw(s)

Next ==
    \/ StartRun
    \/ \E s \in Scenarios : Scenario(s)
    \/ Finalize
    \/ EndUnfinalized
    \/ JobKilled
    \/ \E e \in transit : Ingest(e)
    \/ Tick
    \/ CheckerStep

Spec == Init /\ [][Next]_vars

\* The clock runs, and every call of the checker returns or fails. Nothing is
\* assumed of the job: the checker ends without it.
Fairness == WF_vars(Tick) /\ WF_vars(CheckerStep)

FairSpec == Spec /\ Fairness

-------------------------------------------------------------------------------
(***************************************************************************)
(* Properties                                                              *)
(***************************************************************************)
TypeOK ==
    /\ run \in 0 .. MaxRuns
    /\ active \in BOOLEAN
    /\ phase \in [Scenarios -> {"setup", "before", "submit", "after", "done", "thrown"}]
    /\ running \in [Scenarios -> SUBSET Tests]
    /\ {transit, visible, logged} \subseteq SUBSET Events
    /\ checker \in {"waiting", "asking", "interval", "passed", "timedOut"}
    /\ remaining \in Nat
    /\ elapsed \in 0 .. Timeout + 1
    /\ answers \in [Queries -> {"none", "empty", "pass", "fail"}]

Completed(n) == Finalizer(n) \in logged

AllPassed(n) == \A e \in logged : e.run = n => e.ok

\* A deployment passes only if some run of the suite came to its end and some
\* scenario to its own: a run under way is never enough.
PassNeedsCompletedRun ==
    checker = "passed" =>
        \E n \in Runs : Completed(n) /\ \E e \in logged : e.kind = "Availability" /\ e.ok

\* Once the events of a run that came to its end are found, and no other run has
\* begun, the report says just what happened in that run.
SettledReport ==
    ~active /\ run > 0 /\ Completed(run) /\ transit = {} =>
        Status([q \in Queries |-> Verdict(Rows(q))]) = IF AllPassed(run) THEN "pass" ELSE "fail"

\* A report that counts tells what happened: the one that lets a deployment pass, and the
\* ones that nothing can change any more before the next run.
ReportsCount == PassNeedsCompletedRun /\ SettledReport

\* The checker comes to a decision, whatever becomes of the job and the reports.
EveryCheckEnds == <>(checker \in {"passed", "timedOut"})
==============================================================================
