------------------------------ MODULE ResultPolicy ------------------------------
(***************************************************************************)
(* What a package's result may say of itself: the strict baseline tests and *)
(* the regression test after them, the counters, the regression decision,   *)
(* the run status and the badge.  Four programs judge it, each in code of   *)
(* its own: the producer (package_observation.py), the aggregation          *)
(* (exact_run_aggregation.py), the promotion (promote_package_results.py)   *)
(* and the policy they should all agree with (package_result_policy.py).    *)
(*                                                                         *)
(* A claim is such a result without its texts and identities.  A decision   *)
(* is known by its semantic group and a number.                             *)
(***************************************************************************)
EXTENDS Naturals, FiniteSets

CONSTANTS
    Baseline,       \* the number of strict baseline tests, 5
    Decisions       \* decisions that results name, approved or not

Groups == {"not_applicable", "deferred", "baseline", "passed", "failed"}

ASSUME PolicyConstants ==
    /\ Baseline \in Nat \ {0}
    /\ Decisions \subseteq [group : Groups \cup {"unapproved"}, id : Nat]

BaselineTests == 1..Baseline
Sixth == Baseline + 1
Tests == 1..Sixth

NoDecision == [group |-> "none", id |-> 0]
Validated == [group |-> "validated", id |-> 0]      \* the reason of a passed test

\* "names" gives the ordinal in the name of each baseline test; the sixth is called
\* "Test 6 - ...", "Regression applicability ...", "Regression ...", or mentions test 6 in
\* some other way.  "stray": regression evidence on a baseline test; "told": meaningful
\* texts and the package's own version in the regression evidence.
Claim ==
    [names : [BaselineTests -> 0..Baseline],
     sixthName : {"test6", "applicability", "regression", "mention"},
     status : [Tests -> {"passed", "failed", "skipped"}],
     passed : 0..Sixth, failed : 0..Sixth, skipped : 0..Sixth, core : 0..Sixth,
     stray : BOOLEAN, told : BOOLEAN,
     decision : Decisions \cup {NoDecision}, metaDecision : Decisions \cup {NoDecision},
     regression : {"passed", "failed", "skipped", "deferred", "not_applicable", "none"},
     applicability : {"applicable", "not_applicable"},
     reason : Decisions \cup {Validated, NoDecision},
     run : {"success", "failure"}, badge : {"passing", "failing"}]

-----------------------------------------------------------------------------
Number(c, status) == Cardinality({t \in Tests : c.status[t] = status})
BaselineFailed(c) == Cardinality({t \in BaselineTests : c.status[t] = "failed"})

CountersRight(c) ==
    /\ c.passed = Number(c, "passed") /\ c.failed = Number(c, "failed")
    /\ c.skipped = Number(c, "skipped")
NoBaselineSkipped(c) == \A t \in BaselineTests : c.status[t] # "skipped"
NamesInOrder(c) == \A t \in BaselineTests : c.names[t] = t
BadgeOf(run) == IF run = "success" THEN "passing" ELSE "failing"

-----------------------------------------------------------------------------
\* package_result_policy.py

Metadata(status, applicability, reason, run) ==
    {[status |-> status, applicability |-> applicability, reason |-> reason, run |-> run]}

\* Wrong variant: a baseline decision passes for a deferral.
BaselineExcused(decision, core) ==
    IF decision.group = "baseline"
    THEN Metadata("skipped", "not_applicable", decision,
                  IF core > 0 THEN "failure" ELSE "success")
    ELSE {}

\* expected_regression_metadata: empty where it raises
ExpectedMetadata(decision, core) ==
    CASE core > 0 /\ decision.group = "baseline" ->
           Metadata("skipped", "not_applicable", decision, "failure")
      [] core = 0 /\ decision.group = "passed" ->
           Metadata("passed", "applicable", Validated, "success")
      [] core = 0 /\ decision.group = "failed" ->
           Metadata("failed", "applicable", decision, "failure")
      [] core = 0 /\ decision.group = "deferred" ->
           Metadata("deferred", "applicable", decision, "success")
      [] core = 0 /\ decision.group = "not_applicable" ->
           Metadata("not_applicable", "not_applicable", decision, "success")
      [] OTHER -> {}

Test6Of(status) == IF status \in {"passed", "failed"} THEN status ELSE "skipped"

\* validate_six_test_result: the run statuses it may return, empty where it raises
SixTestResult(c, decision) ==
    {m.run : m \in {m \in ExpectedMetadata(decision, BaselineFailed(c)) :
        /\ NamesInOrder(c) /\ c.sixthName # "regression"
        /\ NoBaselineSkipped(c) /\ ~c.stray
        /\ c.decision = decision
        /\ CountersRight(c) /\ c.core = BaselineFailed(c)
        /\ c.status[Sixth] = Test6Of(m.status)}}

\* validate_publishable_result
Publishable(c) ==
    /\ c.decision # NoDecision /\ c.metaDecision = c.decision
    /\ SixTestResult(c, c.decision) = {c.run}
    /\ \E m \in ExpectedMetadata(c.decision, c.core) :
         c.regression = m.status /\ c.applicability = m.applicability /\ c.reason = m.reason
    /\ c.badge = BadgeOf(c.run)

-----------------------------------------------------------------------------
\* package_observation.py

\* _semantic_policy
SemanticPolicy(failed, test6, decision) ==
    CASE failed > 0 /\ decision.group = "baseline" /\ test6 = "skipped" ->
           Metadata("skipped", "not_applicable", decision, "failure")
      [] failed = 0 /\ decision.group = "passed" /\ test6 = "passed" ->
           Metadata("passed", "applicable", Validated, "success")
      [] failed = 0 /\ decision.group = "failed" /\ test6 = "failed" ->
           Metadata("failed", "applicable", decision, "failure")
      [] failed = 0 /\ decision.group = "deferred" /\ test6 = "skipped" ->
           Metadata("deferred", "applicable", decision, "success")
      [] failed = 0 /\ decision.group = "not_applicable" /\ test6 = "skipped" ->
           Metadata("not_applicable", "not_applicable", decision, "success")
      [] OTHER -> {}

\* validate_observation, as far as it looks at what the workflow gave
ObservationValid(c) ==
    /\ NamesInOrder(c) /\ c.sixthName # "mention"
    /\ NoBaselineSkipped(c) /\ CountersRight(c)
    /\ c.told
    /\ c.core = BaselineFailed(c)

\* build_observation: the regression metadata is derived, and evidence on a baseline test is
\* not taken over.  Empty where it raises.
Observations(c) ==
    {[c EXCEPT !.stray = FALSE, !.metaDecision = c.decision, !.regression = m.status,
               !.applicability = m.applicability, !.reason = m.reason]
     : m \in {m \in SemanticPolicy(BaselineFailed(c), c.status[Sixth], c.decision) :
                ObservationValid(c) /\ c.run = m.run /\ c.badge = BadgeOf(m.run)}}

\* bind_trusted_job: the sixth test is given the evidence of the observation.
Bind(o) == [o EXCEPT !.decision = o.metaDecision]

-----------------------------------------------------------------------------
\* exact_run_aggregation.py

\* _validate_test_details
DetailsValid(c) ==
    /\ NamesInOrder(c) /\ c.sixthName # "mention"
    /\ c.decision # NoDecision
    /\ NoBaselineSkipped(c)

\* The regression metadata against the tests, one branch of validate_package_result each
BaselineBranch(c) ==
    /\ BaselineFailed(c) > 0
    /\ c.regression = "skipped" /\ c.metaDecision.group = "baseline"
    /\ c.applicability = "not_applicable" /\ c.reason = c.metaDecision
RegressionBranch(c, regression, applicability) ==
    /\ BaselineFailed(c) = 0
    /\ c.regression = regression /\ c.metaDecision.group = regression
    /\ c.applicability = applicability
    /\ c.reason = IF regression = "passed" THEN Validated ELSE c.metaDecision

\* Wrong variant: the conclusion of the job is not asked for.
AcceptsAnyConclusion(c, conclusion) ==
    LET succeeds == c.regression \in {"deferred", "not_applicable", "passed"} IN
      /\ DetailsValid(c) /\ CountersRight(c)
      /\ c.run = IF succeeds THEN "success" ELSE "failure"
      /\ c.badge = BadgeOf(c.run)

\* validate_package_result, given the conclusion of the package's job
Aggregates(c, conclusion) ==
    /\ DetailsValid(c) /\ CountersRight(c)
    /\ c.core = BaselineFailed(c)
    /\ c.told /\ c.decision = c.metaDecision
    /\ c.regression # "none" /\ c.status[Sixth] = Test6Of(c.regression)
    /\ \/ BaselineBranch(c)
       \/ RegressionBranch(c, "failed", "applicable")
       \/ RegressionBranch(c, "deferred", "applicable")
       \/ RegressionBranch(c, "not_applicable", "not_applicable")
       \/ RegressionBranch(c, "passed", "applicable")
    /\ LET succeeds == BaselineFailed(c) = 0 /\ c.regression # "failed"
       IN c.run = IF succeeds THEN "success" ELSE "failure"
    /\ c.badge = BadgeOf(c.run) /\ conclusion = c.run

-----------------------------------------------------------------------------
\* promote_package_results.py

\* The groups of a decision that go with the tests
GroupsFor(c) ==
    IF BaselineFailed(c) > 0 THEN {"baseline"}
    ELSE IF c.status[Sixth] = "skipped" THEN {"deferred", "not_applicable"}
    ELSE {c.status[Sixth]}

\* The part of validate_persisted_result that its strict and its compatible policy share
\* (legacy: a passed sixth test may have no decision)
PersistedForm(c, conclusion, legacy) ==
    /\ {c.names[t] : t \in BaselineTests} = BaselineTests
    /\ c.sixthName # "mention"
    /\ NoBaselineSkipped(c) /\ ~c.stray
    /\ CountersRight(c) /\ c.core = BaselineFailed(c)
    /\ NoDecision \in {c.decision, c.metaDecision} \/ c.decision = c.metaDecision
    /\ LET decision == IF c.decision = NoDecision THEN c.metaDecision ELSE c.decision
       IN IF decision = NoDecision THEN legacy /\ c.status[Sixth] = "passed"
          ELSE decision.group \in GroupsFor(c)
    /\ c.regression = "none" \/ Test6Of(c.regression) = c.status[Sixth]
    /\ c.run = IF BaselineFailed(c) = 0 /\ c.status[Sixth] # "failed" THEN "success" ELSE "failure"
    /\ c.badge = BadgeOf(c.run) /\ conclusion = c.run

\* Its strict policy, for what was just tested
PromotesStrict(c, conclusion) == PersistedForm(c, conclusion, FALSE) /\ NamesInOrder(c) /\ Publishable(c)
=============================================================================
